---- MODULE Spec2Model ----
(***************************************************************************)
(* W4RP-BLE firmware core: WBP ruleset codec (Protocol), rule engine       *)
(* (Engine), stream orchestrator (Controller) and OTA service              *)
(* (ESP32OTAService), modelled as state machines.                          *)
(*                                                                         *)
(* Representation choices                                                  *)
(*  - A byte is an integer 0..255; a buffer is a sequence of bytes.        *)
(*  - A 32-bit word that may exceed 2^31-1 (CRC, magic) is kept as its     *)
(*    four little-endian bytes <<b0,b1,b2,b3>>.                            *)
(*  - binary32 values are decoded from their bit pattern; the values used  *)
(*    are integers of small magnitude, on which float arithmetic is exact. *)
(*  - millis() is the variable now; the modelled horizon is far below the  *)
(*    2^32 ms wrap, so uint32 differences are plain differences.           *)
(***************************************************************************)
EXTENDS Integers, Naturals, Sequences, FiniteSets, TLC

\* ------------------------------------------------------------------------
\* Bit and byte helpers
\* ------------------------------------------------------------------------

RECURSIVE Pow2(_)
Pow2(n) == IF n = 0 THEN 1 ELSE 2 * Pow2(n - 1)

\* bit i of the integer v, 0 <= v < 2^31
BitOf(v, i) == IF i >= 31 THEN 0 ELSE (v \div Pow2(i)) % 2

RECURSIVE XorBits(_, _, _)
XorBits(a, b, n) ==
  IF n = 0 THEN 0
  ELSE (((a % 2) + (b % 2)) % 2) + 2 * XorBits(a \div 2, b \div 2, n - 1)

\* a ^ b on bytes
XorByte(a, b) == XorBits(a, b, 8)

\* a ^ b on 32-bit words kept as four little-endian bytes
XorWord(a, b) == << XorByte(a[1], b[1]), XorByte(a[2], b[2]),
                    XorByte(a[3], b[3]), XorByte(a[4], b[4]) >>

\* ~a on a 32-bit word
NotWord(a) == << 255 - a[1], 255 - a[2], 255 - a[3], 255 - a[4] >>

\* a >> 1 on a 32-bit word
ShrWord1(a) == << (a[1] \div 2) + 128 * (a[2] % 2),
                  (a[2] \div 2) + 128 * (a[3] % 2),
                  (a[3] \div 2) + 128 * (a[4] % 2),
                  a[4] \div 2 >>

\* a >> 8 on a 32-bit word
ShrWord8(a) == << a[2], a[3], a[4], 0 >>

ZeroWord == << 0, 0, 0, 0 >>

\* the little-endian bytes of a word given as a small integer
WordOfInt(v) == << v % 256, (v \div 256) % 256,
                   (v \div 65536) % 256, (v \div 16777216) % 256 >>

\* ------------------------------------------------------------------------
\* CRC-32 (IEEE, reflected polynomial 0xEDB88320), as esp_crc32_le
\* ------------------------------------------------------------------------

CrcPoly == << 32, 131, 184, 237 >>   \* 0xEDB88320, little-endian bytes

RECURSIVE CrcTableEntry(_, _)
CrcTableEntry(w, k) ==
  IF k = 0 THEN w
  ELSE CrcTableEntry(IF w[1] % 2 = 1 THEN XorWord(ShrWord1(w), CrcPoly)
                                     ELSE ShrWord1(w), k - 1)

CrcTable == [i \in 0..255 |-> CrcTableEntry(<< i, 0, 0, 0 >>, 8)]

\* one byte folded into the CRC register (table-driven, reflected)
CrcStep(crc, b) == XorWord(CrcTable[XorByte(crc[1], b)], ShrWord8(crc))

RECURSIVE CrcUpdate(_, _, _, _)
\* the CRC register after folding data[lo..hi] into crc, left to right
\* (the range is halved so that the evaluation stays shallow)
CrcUpdate(crc, data, lo, hi) ==
  IF lo > hi THEN crc
  ELSE IF lo = hi THEN CrcStep(crc, data[lo])
  ELSE LET mid  == (lo + hi) \div 2
           left == CrcUpdate(crc, data, lo, mid)
       IN IF left = left THEN CrcUpdate(left, data, mid + 1, hi) ELSE left

\* esp_crc32_le(crc, data, len): running CRC, chainable across chunks
esp_crc32_le(crc, data) == NotWord(CrcUpdate(NotWord(crc), data, 1, Len(data)))

\* Protocol::calculateCRC32
calculateCRC32(data) == esp_crc32_le(ZeroWord, data)

\* ------------------------------------------------------------------------
\* Reading packed little-endian fields (the reinterpret_cast views of
\* WBPRulesHeader, WBPSignal, WBPCondition, WBPAction, WBPActionParam,
\* WBPRule); offsets are 0-based as in C
\* ------------------------------------------------------------------------

U8(data, off) == data[off + 1]
U16(data, off) == data[off + 1] + 256 * data[off + 2]
U32W(data, off) == << data[off + 1], data[off + 2], data[off + 3], data[off + 4] >>
U32(data, off) == data[off + 1] + 256 * data[off + 2] + 65536 * data[off + 3]
                  + 16777216 * data[off + 4]

MaxInt == Pow2(30) + (Pow2(30) - 1)   \* 2^31 - 1

\* The value of a binary32 bit pattern (four little-endian bytes), truncated
\* toward zero and saturated at +-MaxInt; exact on integer-valued floats.
F32(w) ==
  LET sign == w[4] \div 128
      exp  == (w[4] % 128) * 2 + (w[3] \div 128)
      mant == (w[3] % 128) * 65536 + w[2] * 256 + w[1]
      m    == 8388608 + mant
      mag  == IF exp = 0 THEN 0
              ELSE IF exp > 157 THEN MaxInt
              ELSE IF exp >= 150 THEN m * Pow2(exp - 150)
              ELSE IF exp < 127 THEN 0
              ELSE m \div Pow2(150 - exp)
  IN IF sign = 1 THEN 0 - mag ELSE mag

sizeofWBPRulesHeader == 24
sizeofWBPMeta == 40
sizeofWBPSignal == 16
sizeofWBPCondition == 12
sizeofWBPAction == 8
sizeofWBPActionParam == 4
sizeofWBPRule == 10

WBP_MAGIC_RULES == << 2, 87, 222, 192 >>   \* 0xC0DE5702
WBP_VERSION == 2
WBP_MIN_VERSION == 2

\* Operation codes
OpEQ == 0
OpNE == 1
OpGT == 2
OpGE == 3
OpLT == 4
OpLE == 5
OpWITHIN == 6
OpOUTSIDE == 7
OpHOLD == 8

\* ParamType codes
PtINT == 0
PtFLOAT == 1
PtSTRING == 2
PtBOOL == 3

MaxHoldMs == 86400000

RECURSIVE strnlen(_, _, _)
\* number of bytes before the first NUL among data[from+1 .. from+maxLen]
strnlen(data, from, maxLen) ==
  IF maxLen = 0 \/ data[from + 1] = 0 THEN 0
  ELSE 1 + strnlen(data, from + 1, maxLen - 1)

\* readStringFromTable: tblOff is the table's offset in data
readStringFromTable(data, tblOff, offset, tableLen) ==
  IF offset >= tableLen THEN << >>
  ELSE LET maxLen == tableLen - offset
           len    == strnlen(data, tblOff + offset, maxLen)
       IN IF len = maxLen THEN << >>
          ELSE SubSeq(data, tblOff + offset + 1, tblOff + offset + len)

\* RuntimeSignal / RuntimeCondition / RuntimeRule as built by parseRules
\* (definition fields from the wire, runtime fields at their initialisers)
ParseSignal(data, o) ==
  [ canId |-> U32(data, o), startBit |-> U16(data, o + 4),
    bitLength |-> U8(data, o + 6),
    bigEndian |-> (U8(data, o + 7) % 2) = 1,
    isSigned |-> ((U8(data, o + 7) \div 2) % 2) = 1,
    factor |-> F32(U32W(data, o + 8)), offset |-> F32(U32W(data, o + 12)),
    value |-> 0, lastValue |-> 0, lastUpdateMs |-> 0, everSet |-> FALSE ]

ParseCondition(data, o) ==
  LET op == U8(data, o + 1)
      v1 == F32(U32W(data, o + 4))
  IN [ signalIdx |-> U8(data, o), operation |-> op,
       value1 |-> v1, value2 |-> F32(U32W(data, o + 8)),
       holdMs |-> IF op = OpHOLD THEN v1 ELSE 0,
       holdStartMs |-> 0, holdActive |-> FALSE ]

ConditionValid(data, o, signalCount) ==
  /\ U8(data, o) < signalCount
  /\ U8(data, o + 1) <= OpHOLD
  /\ U8(data, o + 1) = OpHOLD =>
       ~(F32(U32W(data, o + 4)) < 0 \/ F32(U32W(data, o + 4)) > MaxHoldMs)

ParseParam(data, o, tblOff, tblLen) ==
  LET type == U8(data, o)
      v    == U16(data, o + 2)
  IN [ type |-> type,
       intVal |-> IF type \in {PtINT, PtBOOL} THEN v ELSE 0,
       floatVal100 |-> IF type = PtFLOAT THEN v ELSE 0,
       strVal |-> IF type = PtSTRING
                  THEN readStringFromTable(data, tblOff, v, tblLen)
                  ELSE << >> ]

ParseAction(data, o, paramsOff, tblOff, tblLen) ==
  LET paramCount == U8(data, o + 2)
      paramStart == U8(data, o + 3)
  IN [ capabilityId |-> readStringFromTable(data, tblOff, U16(data, o), tblLen),
       params |-> [ j \in 1..paramCount |->
                    ParseParam(data,
                               paramsOff + (paramStart + j - 1) * sizeofWBPActionParam,
                               tblOff, tblLen) ] ]

ActionValid(data, o, paramsOff, actionParamCount, tblOff, tblLen) ==
  LET paramCount == U8(data, o + 2)
      paramStart == U8(data, o + 3)
  IN /\ readStringFromTable(data, tblOff, U16(data, o), tblLen) # << >>
     /\ paramStart + paramCount <= actionParamCount
     /\ \A j \in 1..paramCount :
          U8(data, paramsOff + (paramStart + j - 1) * sizeofWBPActionParam) <= PtBOOL

ParseRule(data, o) ==
  [ conditionMask |-> U32(data, o + 2),
    actionStartIdx |-> U8(data, o + 6), actionCount |-> U8(data, o + 7),
    debounceMs |-> U8(data, o + 8) * 10, cooldownMs |-> U8(data, o + 9) * 10,
    lastTriggerMs |-> 0, lastConditionChangeMs |-> 0,
    lastConditionState |-> FALSE ]

\* the rule checks without the test of the action range
RuleValid_NoActionRange(data, o, conditionCount, actionCount) ==
  \A c \in 0..31 : BitOf(U32(data, o + 2), c) = 1 => c < conditionCount

RuleValid(data, o, conditionCount, actionCount) ==
  /\ \A c \in 0..31 :
       BitOf(U32(data, o + 2), c) = 1 => c < conditionCount
  /\ U8(data, o + 6) + U8(data, o + 7) <= actionCount

ParseFail == [ ok |-> FALSE, signals |-> << >>, conditions |-> << >>,
               actions |-> << >>, rules |-> << >> ]

\* Protocol::parseRules: the checks in source order; the result carries the
\* four output vectors when every check passes
parseRules(data) ==
  LET len == Len(data) IN
  IF len < sizeofWBPRulesHeader THEN ParseFail
  ELSE IF U32W(data, 0) # WBP_MAGIC_RULES THEN ParseFail
  ELSE IF U8(data, 4) < WBP_MIN_VERSION \/ U8(data, 4) > WBP_VERSION THEN ParseFail
  ELSE
  LET flags == U8(data, 5)
      totalSize == U16(data, 6)
      signalCount == U8(data, 8)
      conditionCount == U8(data, 9)
      actionCount == U8(data, 10)
      ruleCount == U8(data, 11)
      actionParamCount == U16(data, 12)
      stringTableOffset == U16(data, 16)
      hasMeta == (flags % 2) = 1
  IN
  IF totalSize > len THEN ParseFail
  ELSE IF totalSize < sizeofWBPRulesHeader THEN ParseFail
  ELSE IF calculateCRC32(SubSeq(data, sizeofWBPRulesHeader + 1, totalSize))
          # U32W(data, 20) THEN ParseFail
  ELSE
  LET offset0 == sizeofWBPRulesHeader + (IF hasMeta THEN sizeofWBPMeta ELSE 0)
      expectedSize == offset0 + signalCount * sizeofWBPSignal
                      + conditionCount * sizeofWBPCondition
                      + actionCount * sizeofWBPAction
                      + actionParamCount * sizeofWBPActionParam
                      + ruleCount * sizeofWBPRule
  IN
  IF stringTableOffset < offset0 \/ stringTableOffset >= totalSize THEN ParseFail
  ELSE IF expectedSize > len \/ stringTableOffset < expectedSize THEN ParseFail
  ELSE
  LET stringTableLen == totalSize - stringTableOffset
      condOff == offset0 + signalCount * sizeofWBPSignal
      actOff == condOff + conditionCount * sizeofWBPCondition
      parOff == actOff + actionCount * sizeofWBPAction
      ruleOff == parOff + actionParamCount * sizeofWBPActionParam
  IN
  IF \E i \in 0..(conditionCount - 1) :
       ~ConditionValid(data, condOff + i * sizeofWBPCondition, signalCount)
  THEN ParseFail
  ELSE IF \E i \in 0..(actionCount - 1) :
       ~ActionValid(data, actOff + i * sizeofWBPAction, parOff,
                    actionParamCount, stringTableOffset, stringTableLen)
  THEN ParseFail
  ELSE IF \E i \in 0..(ruleCount - 1) :
       ~RuleValid(data, ruleOff + i * sizeofWBPRule, conditionCount, actionCount)
  THEN ParseFail
  ELSE
  [ ok |-> TRUE,
    signals |-> [ i \in 1..signalCount |->
                  ParseSignal(data, offset0 + (i - 1) * sizeofWBPSignal) ],
    conditions |-> [ i \in 1..conditionCount |->
                     ParseCondition(data, condOff + (i - 1) * sizeofWBPCondition) ],
    actions |-> [ i \in 1..actionCount |->
                  ParseAction(data, actOff + (i - 1) * sizeofWBPAction, parOff,
                              stringTableOffset, stringTableLen) ],
    rules |-> [ i \in 1..ruleCount |->
                ParseRule(data, ruleOff + (i - 1) * sizeofWBPRule) ] ]

\* ------------------------------------------------------------------------
\* Engine (src/src/core/Engine.cpp).  The engine object is one record whose
\* fields carry the member names.
\* ------------------------------------------------------------------------

\* Engine::Engine(): every member at its in-class initialiser
EngineInit ==
  [ signals_ |-> << >>, conditions_ |-> << >>, actions_ |-> << >>,
    rules_ |-> << >>, rulesetBinary_ |-> << >>, rulesetCRC_ |-> ZeroWord,
    signalMap_ |-> << >>, handlers_ |-> {}, unknownCapability_ |-> << >>,
    rulesTriggered_ |-> 0, debugMode_ |-> FALSE,
    debugSignals_ |-> << >>, debugDirtyFlags_ |-> << >>,
    debugDirtyQueue_ |-> << >>, debugQueueHead_ |-> 0 ]

\* the capability id of the first action whose handler is missing, or << >>
RECURSIVE FirstUnknown(_, _, _)
FirstUnknown(actions, handlers, i) ==
  IF i > Len(actions) THEN << >>
  ELSE IF actions[i].capabilityId \notin handlers THEN actions[i].capabilityId
  ELSE FirstUnknown(actions, handlers, i + 1)

\* signalMap_: CAN id -> the indices of the signals with that id, in order
RECURSIVE IndicesWithId(_, _, _)
IndicesWithId(signals, id, i) ==
  IF i > Len(signals) THEN << >>
  ELSE (IF signals[i].canId = id THEN << i >> ELSE << >>)
       \o IndicesWithId(signals, id, i + 1)

BuildSignalMap(signals) ==
  [ id \in { signals[i].canId : i \in DOMAIN signals } |->
      IndicesWithId(signals, id, 1) ]

\* loadRuleset with the swap moved before the capability validation
loadRuleset_SwapBeforeValidate(eng, data) ==
  LET p == parseRules(data) IN
  IF ~p.ok THEN [ ok |-> FALSE, eng |-> eng ]
  ELSE LET unknown == FirstUnknown(p.actions, eng.handlers_, 1)
           swapped == [ eng EXCEPT !.signals_ = p.signals,
                                   !.conditions_ = p.conditions,
                                   !.actions_ = p.actions,
                                   !.rules_ = p.rules,
                                   !.signalMap_ = BuildSignalMap(p.signals),
                                   !.rulesetBinary_ = data,
                                   !.rulesetCRC_ = calculateCRC32(data) ]
       IN IF unknown # << >>
          THEN [ ok |-> FALSE,
                 eng |-> [ swapped EXCEPT !.unknownCapability_ = unknown ] ]
          ELSE [ ok |-> TRUE,
                 eng |-> [ swapped EXCEPT !.unknownCapability_ = << >> ] ]

\* Engine::loadRuleset: the result and the engine after the call
loadRuleset(eng, data) ==
  LET p == parseRules(data) IN
  IF ~p.ok THEN [ ok |-> FALSE, eng |-> eng ]
  ELSE LET unknown == FirstUnknown(p.actions, eng.handlers_, 1) IN
       IF unknown # << >>
       THEN [ ok |-> FALSE, eng |-> [ eng EXCEPT !.unknownCapability_ = unknown ] ]
       ELSE [ ok |-> TRUE,
              eng |-> [ eng EXCEPT !.unknownCapability_ = << >>,
                                   !.signals_ = p.signals,
                                   !.conditions_ = p.conditions,
                                   !.actions_ = p.actions,
                                   !.rules_ = p.rules,
                                   !.signalMap_ = BuildSignalMap(p.signals),
                                   !.rulesetBinary_ = data,
                                   !.rulesetCRC_ = calculateCRC32(data) ] ]

\* Engine::registerCapability forgetting the handlers registered before
registerCapability_Forgetful(eng, id) == [ eng EXCEPT !.handlers_ = { id } ]

\* Engine::registerCapability
registerCapability(eng, id) == [ eng EXCEPT !.handlers_ = @ \cup { id } ]

\* ------------------------------------------------------------------------
\* Signal decoding.  A 64-bit word is the sequence of its 64 bits, least
\* significant first; a decoded value is an integer (the containers of this
\* module carry integer factors and offsets) that binary32 represents,
\* saturated at MaxInt.
\* ------------------------------------------------------------------------

ByteBit(b, i) == (b \div Pow2(i)) % 2

\* the bits the big-endian loop of extractBits shifts in, in loop order
RECURSIVE BigEndianBits(_, _, _, _)
BigEndianBits(data, start, len, i) ==
  IF i >= len THEN << >>
  ELSE LET bitPos == start - i
       IN (IF bitPos < 0 \/ bitPos >= 64 THEN << >>
           ELSE << ByteBit(data[(bitPos \div 8) + 1], bitPos % 8) >>)
          \o BigEndianBits(data, start, len, i + 1)

\* extractBits (bitPos is a uint16_t and byteIdx a uint8_t on the
\* little-endian path)
extractBits(data, start, len, bigEndian) ==
  IF len = 0 \/ len > 64 THEN [ i \in 1..64 |-> 0 ]
  ELSE IF ~bigEndian
  THEN [ i \in 1..64 |->
         IF i - 1 < len
         THEN LET bitPos  == (start + (i - 1)) % 65536
                  byteIdx == (bitPos \div 8) % 256
              IN IF byteIdx < 8 THEN ByteBit(data[byteIdx + 1], bitPos % 8) ELSE 0
         ELSE 0 ]
  ELSE LET shifted == BigEndianBits(data, start, len, 0)
           k       == Len(shifted)
       IN [ i \in 1..64 |-> IF i <= k THEN shifted[k - i + 1] ELSE 0 ]

RECURSIVE LowValue(_, _)
LowValue(bits, n) ==
  IF n = 0 THEN 0 ELSE LowValue(bits, n - 1) + bits[n] * Pow2(n - 1)

RECURSIVE Log2Floor(_)
Log2Floor(a) == IF a < 2 THEN 0 ELSE 1 + Log2Floor(a \div 2)

\* the conversion of an integer 0 <= a <= MaxInt to binary32: the nearest
\* value with a 24-bit significand, ties to even (what does not fit the
\* integers of this module is MaxInt)
FloatOfInt(a) ==
  LET e == Log2Floor(a) IN
  IF e <= 23 THEN a
  ELSE LET q  == Pow2(e - 23)
           m  == a \div q
           r  == a % q
           m1 == IF 2 * r > q \/ (2 * r = q /\ m % 2 = 1) THEN m + 1 ELSE m
       IN IF m1 = Pow2(24) /\ e = 30 THEN MaxInt ELSE m1 * q

\* (float)raw and (float)(int64_t)raw
Unsigned64(bits) ==
  IF \E i \in 32..64 : bits[i] = 1 THEN MaxInt ELSE FloatOfInt(LowValue(bits, 31))

Signed64(bits) ==
  IF bits[64] = 0 THEN Unsigned64(bits)
  ELSE LET inv == [ i \in 1..64 |-> 1 - bits[i] ]
       IN IF (\E i \in 32..63 : inv[i] = 1) \/ LowValue(inv, 31) = MaxInt
          THEN 0 - MaxInt
          ELSE 0 - FloatOfInt(LowValue(inv, 31) + 1)

\* Engine::decodeSignal without the sign extension
decodeSignal_NoSignExtension(sig, data) ==
  LET raw == extractBits(data, sig.startBit, sig.bitLength, sig.bigEndian)
      val == IF sig.isSigned THEN Signed64(raw) ELSE Unsigned64(raw)
  IN val * sig.factor + sig.offset

\* Engine::decodeSignal
decodeSignal(sig, data) ==
  LET raw == extractBits(data, sig.startBit, sig.bitLength, sig.bigEndian)
      ext == IF /\ sig.bitLength > 0 /\ sig.bitLength < 64
                /\ raw[sig.bitLength] = 1
             THEN [ i \in 1..64 |-> IF i > sig.bitLength THEN 1 ELSE raw[i] ]
             ELSE raw
      val == IF sig.isSigned THEN Signed64(ext) ELSE Unsigned64(raw)
  IN val * sig.factor + sig.offset

\* the four assignments processCanFrame makes to a signal the frame carries
UpdateSignal(sig, frame, nowMs) ==
  [ sig EXCEPT !.lastValue = sig.value,
               !.value = decodeSignal(sig, frame.data),
               !.lastUpdateMs = nowMs,
               !.everSet = TRUE ]

\* the capacity of the dirty queue
MaxDirtyQueue == 64

\* fabsf(value - lastDebugValue) > 0.01f on integer values; lastDebugValue is
\* kept in tenths, so that its initial -999999.9 differs from every value
DebugChanged(sig) == sig.value * 10 # sig.lastDebugValue10

\* the overlay loop of processCanFrame from overlay signal idx on (1-based;
\* debugSignalMap_[id] lists the overlay signals with that id in index order)
RECURSIVE UpdateDebugFrom(_, _, _, _)
UpdateDebugFrom(eng, frame, nowMs, idx) ==
  IF idx > Len(eng.debugSignals_) THEN eng
  ELSE IF eng.debugSignals_[idx].canId # frame.id
  THEN UpdateDebugFrom(eng, frame, nowMs, idx + 1)
  ELSE LET sig == UpdateSignal(eng.debugSignals_[idx], frame, nowMs)
           e1  == [ eng EXCEPT !.debugSignals_[idx] = sig ]
           e2  == IF /\ DebugChanged(sig)
                     /\ ~eng.debugDirtyFlags_[idx]
                     /\ Len(eng.debugDirtyQueue_) < MaxDirtyQueue
                  THEN [ e1 EXCEPT !.debugDirtyFlags_[idx] = TRUE,
                                   !.debugDirtyQueue_ = Append(@, idx - 1) ]
                  ELSE e1
       IN UpdateDebugFrom(e2, frame, nowMs, idx + 1)

\* Engine::processCanFrame (signalMap_ holds the positions of the signals in
\* signals_)
processCanFrame(eng, frame, nowMs) ==
  LET e1 == IF frame.id \notin DOMAIN eng.signalMap_ THEN eng
            ELSE LET hit == { eng.signalMap_[frame.id][k] :
                                k \in DOMAIN eng.signalMap_[frame.id] }
                 IN [ eng EXCEPT !.signals_ =
                        [ i \in DOMAIN eng.signals_ |->
                            IF i \in hit
                            THEN UpdateSignal(eng.signals_[i], frame, nowMs)
                            ELSE eng.signals_[i] ] ]
  IN IF e1.debugMode_ THEN UpdateDebugFrom(e1, frame, nowMs, 1) ELSE e1

\* nowMs - thenMs on uint32_t; thenMs is an earlier reading of the same clock
\* and the clock stays far below 2^32 in every state of this module
ElapsedMs(nowMs, thenMs) == nowMs - thenMs

\* Engine::evaluateCondition without the test of everSet
evaluateCondition_NoEverSetTest(eng, c, nowMs) ==
  LET cond == eng.conditions_[c]
  IN IF cond.signalIdx >= Len(eng.signals_) THEN [ ret |-> FALSE, eng |-> eng ]
     ELSE LET val == eng.signals_[cond.signalIdx + 1].value
          IN [ ret |-> CASE cond.operation = OpEQ -> val = cond.value1
                         [] cond.operation = OpNE -> val # cond.value1
                         [] cond.operation = OpGT -> val > cond.value1
                         [] cond.operation = OpGE -> val >= cond.value1
                         [] cond.operation = OpLT -> val < cond.value1
                         [] cond.operation = OpLE -> val <= cond.value1
                         [] cond.operation = OpWITHIN ->
                              val >= cond.value1 /\ val <= cond.value2
                         [] cond.operation = OpOUTSIDE ->
                              val < cond.value1 \/ val > cond.value2
                         [] OTHER -> FALSE,
               eng |-> eng ]

\* Engine::evaluateCondition on conditions_[c]: the result and the engine
\* after the call (the hold state of the condition is written by the call)
evaluateCondition(eng, c, nowMs) ==
  LET cond == eng.conditions_[c]
  IN IF cond.signalIdx >= Len(eng.signals_) THEN [ ret |-> FALSE, eng |-> eng ]
     ELSE LET sig == eng.signals_[cond.signalIdx + 1]
              val == sig.value
          IN IF ~sig.everSet THEN [ ret |-> FALSE, eng |-> eng ]
             ELSE IF cond.operation = OpHOLD
             THEN IF val # 0
                  THEN LET started ==
                             IF ~cond.holdActive
                             THEN [ cond EXCEPT !.holdActive = TRUE,
                                                !.holdStartMs = nowMs ]
                             ELSE cond
                       IN [ ret |-> ElapsedMs(nowMs, started.holdStartMs)
                                      >= started.holdMs,
                            eng |-> [ eng EXCEPT !.conditions_[c] = started ] ]
                  ELSE [ ret |-> FALSE,
                         eng |-> [ eng EXCEPT !.conditions_[c] =
                                     [ cond EXCEPT !.holdActive = FALSE,
                                                   !.holdStartMs = 0 ] ] ]
             ELSE [ ret |-> CASE cond.operation = OpEQ -> val = cond.value1
                              [] cond.operation = OpNE -> val # cond.value1
                              [] cond.operation = OpGT -> val > cond.value1
                              [] cond.operation = OpGE -> val >= cond.value1
                              [] cond.operation = OpLT -> val < cond.value1
                              [] cond.operation = OpLE -> val <= cond.value1
                              [] cond.operation = OpWITHIN ->
                                   val >= cond.value1 /\ val <= cond.value2
                              [] cond.operation = OpOUTSIDE ->
                                   val < cond.value1 \/ val > cond.value2
                              [] OTHER -> FALSE,
                    eng |-> eng ]

\* ------------------------------------------------------------------------
\* Inputs: WBP rules containers as a host authoring tool lays them out
\* (packed structs of Protocol.h, header CRC over the bytes after the header)
\* ------------------------------------------------------------------------

W16(v) == << v % 256, v \div 256 >>

\* the binary32 bit pattern of an integer that binary32 represents exactly
F32Bits(v) ==
  IF v = 0 THEN ZeroWord
  ELSE LET sgn  == IF v < 0 THEN 1 ELSE 0
           a    == IF v < 0 THEN 0 - v ELSE v
           e    == Log2Floor(a)
           exp  == 127 + e
           mant == IF e <= 23 THEN (a - Pow2(e)) * Pow2(23 - e)
                   ELSE (a - Pow2(e)) \div Pow2(e - 23)
       IN << mant % 256, (mant \div 256) % 256,
             (mant \div 65536) + 128 * (exp % 2), (exp \div 2) + 128 * sgn >>

RECURSIVE Flatten(_)
Flatten(ss) == IF ss = << >> THEN << >> ELSE Head(ss) \o Flatten(Tail(ss))

SignalBytes(g) ==
  WordOfInt(g.canId) \o W16(g.startBit) \o << g.bitLength, g.flags >>
  \o F32Bits(g.factor) \o F32Bits(g.offset)

ConditionBytes(c) ==
  << c.signalIdx, c.operation, 0, 0 >> \o F32Bits(c.value1) \o F32Bits(c.value2)

ActionBytes(a) == W16(a.capStrIdx) \o << a.paramCount, a.paramStartIdx, 0, 0, 0, 0 >>

ParamBytes(q) == << q.type, 0 >> \o W16(q.value)

RuleBytes(r) ==
  W16(0) \o WordOfInt(r.conditionMask)
  \o << r.actionStartIdx, r.actionCount, r.debounceDs, r.cooldownDs >>

MkRules(sigs, conds, acts, pars, rules, strtab) ==
  LET body == Flatten([ i \in DOMAIN sigs |-> SignalBytes(sigs[i]) ])
              \o Flatten([ i \in DOMAIN conds |-> ConditionBytes(conds[i]) ])
              \o Flatten([ i \in DOMAIN acts |-> ActionBytes(acts[i]) ])
              \o Flatten([ i \in DOMAIN pars |-> ParamBytes(pars[i]) ])
              \o Flatten([ i \in DOMAIN rules |-> RuleBytes(rules[i]) ])
      full == body \o strtab
      header0 == WBP_MAGIC_RULES \o << WBP_VERSION, 0 >>
                 \o W16(sizeofWBPRulesHeader + Len(full))
                 \o << Len(sigs), Len(conds), Len(acts), Len(rules) >>
                 \o W16(Len(pars)) \o W16(0)
                 \o W16(sizeofWBPRulesHeader + Len(body)) \o W16(0)
  IN header0 \o calculateCRC32(full) \o full

\* data with the byte at 0-based offset off replaced by b
WithByte(data, off, b) == [ data EXCEPT ![off + 1] = b ]

\* ------------------------------------------------------------------------
\* Text helpers (Arduino String / libc as used by the Controller).  A text
\* is its sequence of ASCII bytes.
\* ------------------------------------------------------------------------

IsSpace(b) == b \in {32, 9, 10, 11, 12, 13}
IsDigit(b) == b >= 48 /\ b <= 57

RECURSIVE TrimLeft(_)
TrimLeft(t) == IF t # << >> /\ IsSpace(Head(t)) THEN TrimLeft(Tail(t)) ELSE t

RECURSIVE TrimRight(_)
TrimRight(t) ==
  IF t # << >> /\ IsSpace(t[Len(t)]) THEN TrimRight(SubSeq(t, 1, Len(t) - 1)) ELSE t

\* String::trim
trim(t) == TrimRight(TrimLeft(t))

\* the C string in a String's buffer: the bytes before the first NUL
RECURSIVE CStr(_)
CStr(t) == IF t = << >> \/ Head(t) = 0 THEN << >> ELSE << Head(t) >> \o CStr(Tail(t))

\* String::operator==(const char *), which is strcmp on the buffer; lit holds
\* no NUL
StringEquals(t, lit) == CStr(t) = lit

\* String::startsWith
startsWith(t, prefix) ==
  Len(t) >= Len(prefix) /\ SubSeq(t, 1, Len(prefix)) = prefix

RECURSIVE indexOf(_, _, _)
\* String::indexOf(ch, from): 0-based index of the first ch at or after from, or -1
indexOf(t, ch, from) ==
  IF from >= Len(t) THEN -1
  ELSE IF t[from + 1] = ch THEN from
  ELSE indexOf(t, ch, from + 1)

\* String::substring(from, to) / substring(from), 0-based, to exclusive
substring(t, from, to) == SubSeq(t, from + 1, to)
substringFrom(t, from) == SubSeq(t, from + 1, Len(t))

RECURSIVE DigitsValue(_, _)
\* the value of the leading decimal digits of t, continuing from acc
DigitsValue(t, acc) ==
  IF t = << >> \/ ~IsDigit(Head(t)) THEN acc
  ELSE DigitsValue(Tail(t), acc * 10 + (Head(t) - 48))

\* String::toInt (atol): leading white space, then decimal digits
toInt(t) == DigitsValue(TrimLeft(t), 0)

\* w * 10 + d on a 32-bit word kept as bytes; carry is the overflow beyond 2^32
MulAdd10(w, d) ==
  LET x1 == w[1] * 10 + d
      x2 == w[2] * 10 + (x1 \div 256)
      x3 == w[3] * 10 + (x2 \div 256)
      x4 == w[4] * 10 + (x3 \div 256)
  IN [ word |-> << x1 % 256, x2 % 256, x3 % 256, x4 % 256 >>,
       carry |-> x4 \div 256 ]

ULONG_MAX == << 255, 255, 255, 255 >>

RECURSIVE DigitsWord(_, _)
DigitsWord(t, acc) ==
  IF t = << >> \/ ~IsDigit(Head(t)) THEN acc
  ELSE LET r == MulAdd10(acc, Head(t) - 48)
       IN IF r.carry > 0 THEN ULONG_MAX ELSE DigitsWord(Tail(t), r.word)

\* strtoul(text, nullptr, 10) into a 32-bit unsigned long, saturating
strtoul10(t) == DigitsWord(TrimLeft(t), ZeroWord)

\* w * 16 + d on a 32-bit word kept as bytes
MulAdd16(w, d) ==
  LET x1 == w[1] * 16 + d
      x2 == w[2] * 16 + (x1 \div 256)
      x3 == w[3] * 16 + (x2 \div 256)
      x4 == w[4] * 16 + (x3 \div 256)
  IN [ word |-> << x1 % 256, x2 % 256, x3 % 256, x4 % 256 >>,
       carry |-> x4 \div 256 ]

IsHexDigit(b) == IsDigit(b) \/ (b >= 65 /\ b <= 70) \/ (b >= 97 /\ b <= 102)
HexValue(b) == IF IsDigit(b) THEN b - 48 ELSE IF b >= 97 THEN b - 87 ELSE b - 55

RECURSIVE HexDigitsWord(_, _)
HexDigitsWord(t, acc) ==
  IF t = << >> \/ ~IsHexDigit(Head(t)) THEN acc
  ELSE LET r == MulAdd16(acc, HexValue(Head(t)))
       IN IF r.carry > 0 THEN ULONG_MAX ELSE HexDigitsWord(Tail(t), r.word)

\* strtoul(text, nullptr, 16) on a text without sign or 0x prefix
strtoul16(t) == HexDigitsWord(TrimLeft(t), ZeroWord)

\* String::toFloat (atof) on a text of decimal digits
toFloat(t) == DigitsValue(TrimLeft(t), 0)

\* host side: the eight hexadecimal digits of a 32-bit word
HexChar(d) == IF d < 10 THEN 48 + d ELSE 55 + d
HexOfWord(w) ==
  << HexChar(w[4] \div 16), HexChar(w[4] % 16), HexChar(w[3] \div 16),
     HexChar(w[3] % 16), HexChar(w[2] \div 16), HexChar(w[2] % 16),
     HexChar(w[1] \div 16), HexChar(w[1] % 16) >>

\* host side: the decimal text of a small integer and of a 32-bit word
RECURSIVE DecOfInt(_)
DecOfInt(n) == IF n < 10 THEN << 48 + n >> ELSE DecOfInt(n \div 10) \o << 48 + (n % 10) >>

\* w \div 10 and w % 10 by long division from the most significant byte
DivMod10(w) ==
  LET q4 == w[4] \div 10
      r4 == w[4] % 10
      q3 == (r4 * 256 + w[3]) \div 10
      r3 == (r4 * 256 + w[3]) % 10
      q2 == (r3 * 256 + w[2]) \div 10
      r2 == (r3 * 256 + w[2]) % 10
      q1 == (r2 * 256 + w[1]) \div 10
      r1 == (r2 * 256 + w[1]) % 10
  IN [ quot |-> << q1, q2, q3, q4 >>, rem |-> r1 ]

RECURSIVE DecOfWord(_)
DecOfWord(w) ==
  LET r == DivMod10(w)
  IN IF r.quot = ZeroWord THEN << 48 + r.rem >>
     ELSE DecOfWord(r.quot) \o << 48 + r.rem >>

\* ------------------------------------------------------------------------
\* Debug overlay (src/src/core/Engine.cpp)
\* ------------------------------------------------------------------------

Comma == 44

\* Engine::setDebugMode
setDebugMode(eng, enabled) == [ eng EXCEPT !.debugMode_ = enabled ]

\* Engine::clearDebugSignals
clearDebugSignals(eng) ==
  [ eng EXCEPT !.debugSignals_ = << >>, !.debugDirtyFlags_ = << >>,
               !.debugDirtyQueue_ = << >>, !.debugQueueHead_ = 0,
               !.debugMode_ = FALSE ]

\* one definition "CanId:StartBit:BitLen:BE:Factor:Offset" of loadDebugSignals:
\* the signal it gives, or nothing when a separator is missing
ParseDebugDef(def) ==
  LET p1 == indexOf(def, 58, 0)
      p2 == indexOf(def, 58, p1 + 1)
      p3 == indexOf(def, 58, p2 + 1)
      p4 == indexOf(def, 58, p3 + 1)
      p5 == indexOf(def, 58, p4 + 1)
  IN IF p1 > 0 /\ p2 > p1 /\ p3 > p2 /\ p4 > p3 /\ p5 > p4
     THEN << [ canId |-> toInt(substring(def, 0, p1)),
               startBit |-> toInt(substring(def, p1 + 1, p2)) % 65536,
               bitLength |-> toInt(substring(def, p2 + 1, p3)) % 256,
               bigEndian |-> toInt(substring(def, p3 + 1, p4)) # 0,
               isSigned |-> FALSE,
               factor |-> toFloat(substring(def, p4 + 1, p5)),
               offset |-> toFloat(substringFrom(def, p5 + 1)),
               value |-> 0, lastValue |-> 0, lastUpdateMs |-> 0,
               everSet |-> FALSE, lastDebugValue10 |-> 0 - 9999999 ] >>
     ELSE << >>

\* the parse loop of loadDebugSignals from offset start on
RECURSIVE ParseDebugDefs(_, _)
ParseDebugDefs(definitions, start) ==
  IF ~(start < Len(definitions)) THEN << >>
  ELSE LET found == indexOf(definitions, Comma, start)
           comma == IF found < 0 THEN Len(definitions) ELSE found
           def   == trim(substring(definitions, start, comma))
       IN (IF Len(def) > 0 THEN ParseDebugDef(def) ELSE << >>)
          \o ParseDebugDefs(definitions, comma + 1)

\* Engine::loadDebugSignals leaving the dirty queue as it is
loadDebugSignals_KeepsQueue(eng, definitions) ==
  LET newSignals == ParseDebugDefs(definitions, 0)
  IN [ count |-> Len(newSignals),
       eng |-> [ eng EXCEPT !.debugSignals_ = newSignals,
                            !.debugDirtyFlags_ =
                              [ i \in DOMAIN newSignals |->
                                  i \in DOMAIN eng.debugDirtyFlags_
                                    /\ eng.debugDirtyFlags_[i] ],
                            !.debugMode_ = TRUE ] ]

\* Engine::loadDebugSignals: the count returned and the engine after the call
loadDebugSignals(eng, definitions) ==
  LET newSignals == ParseDebugDefs(definitions, 0)
  IN [ count |-> Len(newSignals),
       eng |-> [ eng EXCEPT !.debugSignals_ = newSignals,
                            !.debugDirtyFlags_ = [ i \in DOMAIN newSignals |-> FALSE ],
                            !.debugDirtyQueue_ = << >>,
                            !.debugQueueHead_ = 0,
                            !.debugMode_ = TRUE ] ]

\* Engine::popDirtyDebugSignal leaving the dirty flag of the popped index set
popDirtyDebugSignal_KeepsFlag(eng) ==
  IF eng.debugQueueHead_ >= Len(eng.debugDirtyQueue_)
  THEN [ ok |-> FALSE, sig |-> << >>,
         eng |-> IF eng.debugQueueHead_ > 0
                 THEN [ eng EXCEPT !.debugDirtyQueue_ = << >>, !.debugQueueHead_ = 0 ]
                 ELSE eng ]
  ELSE LET idx == eng.debugDirtyQueue_[eng.debugQueueHead_ + 1]
           e1  == [ eng EXCEPT !.debugQueueHead_ = @ + 1 ]
       IN IF idx < Len(eng.debugSignals_)
          THEN [ ok |-> TRUE, sig |-> eng.debugSignals_[idx + 1],
                 eng |-> [ e1 EXCEPT
                             !.debugSignals_[idx + 1].lastDebugValue10 =
                               eng.debugSignals_[idx + 1].value * 10 ] ]
          ELSE [ ok |-> FALSE, sig |-> << >>, eng |-> e1 ]

\* Engine::popDirtyDebugSignal: the result, the signal copied out and the
\* engine after the call
popDirtyDebugSignal(eng) ==
  IF eng.debugQueueHead_ >= Len(eng.debugDirtyQueue_)
  THEN [ ok |-> FALSE, sig |-> << >>,
         eng |-> IF eng.debugQueueHead_ > 0
                 THEN [ eng EXCEPT !.debugDirtyQueue_ = << >>, !.debugQueueHead_ = 0 ]
                 ELSE eng ]
  ELSE LET idx == eng.debugDirtyQueue_[eng.debugQueueHead_ + 1]
           e1  == [ eng EXCEPT !.debugQueueHead_ = @ + 1 ]
       IN IF idx < Len(eng.debugSignals_)
          THEN [ ok |-> TRUE, sig |-> eng.debugSignals_[idx + 1],
                 eng |-> [ e1 EXCEPT
                             !.debugDirtyFlags_[idx + 1] = FALSE,
                             !.debugSignals_[idx + 1].lastDebugValue10 =
                               eng.debugSignals_[idx + 1].value * 10 ] ]
          ELSE [ ok |-> FALSE, sig |-> << >>, eng |-> e1 ]

\* ------------------------------------------------------------------------
\* Rule evaluation (src/src/core/Engine.cpp).  An evaluation returns the
\* engine after it and a trace: << "evaluateCondition", c, result >> for each
\* condition evaluated, << "handler", id, params >> for each handler invoked
\* and << "rule", r, allMet, fired >> for each rule, in program order.
\* ------------------------------------------------------------------------

\* the text a parameter is handed to the handler as
RenderParam(p) ==
  IF p.type = PtSTRING THEN p.strVal
  ELSE IF p.type = PtFLOAT
  THEN DecOfInt(p.floatVal100 \div 100)
       \o << 46, 48 + ((p.floatVal100 % 100) \div 10), 48 + (p.floatVal100 % 10),
             48, 48 >>
  ELSE DecOfInt(p.intVal)

\* Engine::executeAction: the handler invocation it makes, if any
executeAction(eng, action) ==
  IF action.capabilityId \notin eng.handlers_ THEN << >>
  ELSE << << "handler", action.capabilityId,
             [ i \in DOMAIN action.params |-> RenderParam(action.params[i]) ] >> >>

\* the condition loop of evaluateRules from condition c on (0-based)
RECURSIVE EvalConditions(_, _, _, _, _)
EvalConditions(eng, mask, c, nowMs, log) ==
  IF ~(c < Len(eng.conditions_) /\ c < 32)
  THEN [ allMet |-> TRUE, eng |-> eng, log |-> log ]
  ELSE IF BitOf(mask, c) = 1
  THEN LET e    == evaluateCondition(eng, c + 1, nowMs)
           log1 == Append(log, << "evaluateCondition", c, e.ret >>)
       IN IF ~e.ret THEN [ allMet |-> FALSE, eng |-> e.eng, log |-> log1 ]
          ELSE EvalConditions(e.eng, mask, c + 1, nowMs, log1)
  ELSE EvalConditions(eng, mask, c + 1, nowMs, log)

\* the action loop of evaluateRules running the slice from its last action
\* to its first
RECURSIVE ExecuteActions_Reversed(_, _, _)
ExecuteActions_Reversed(eng, a, end) ==
  IF ~(a < end /\ a < Len(eng.actions_)) THEN << >>
  ELSE ExecuteActions_Reversed(eng, a + 1, end)
       \o << << "executeAction", a >> >> \o executeAction(eng, eng.actions_[a + 1])

\* the action loop of evaluateRules from action a on (0-based): each call of
\* executeAction and the handler invocation it makes
RECURSIVE ExecuteActions(_, _, _)
ExecuteActions(eng, a, end) ==
  IF ~(a < end /\ a < Len(eng.actions_)) THEN << >>
  ELSE << << "executeAction", a >> >> \o executeAction(eng, eng.actions_[a + 1])
       \o ExecuteActions(eng, a + 1, end)

\* the body of the rule loop with the debounce test left out
EvaluateRule_NoDebounce(eng, r, nowMs, log) ==
  LET rule    == eng.rules_[r]
      ec      == EvalConditions(eng, rule.conditionMask, 0, nowMs, log)
      tracked == IF ec.allMet # rule.lastConditionState
                 THEN [ rule EXCEPT !.lastConditionState = ec.allMet,
                                    !.lastConditionChangeMs = nowMs ]
                 ELSE rule
      cooldownOk == ElapsedMs(nowMs, tracked.lastTriggerMs) >= tracked.cooldownMs
  IN IF ~ec.allMet \/ ~cooldownOk
     THEN [ eng |-> [ ec.eng EXCEPT !.rules_[r] = tracked ],
            log |-> Append(ec.log, << "rule", r - 1, ec.allMet, FALSE >>) ]
     ELSE [ eng |-> [ ec.eng EXCEPT
                        !.rules_[r] = [ tracked EXCEPT !.lastTriggerMs = nowMs ],
                        !.rulesTriggered_ = @ + 1 ],
            log |-> Append(ec.log
                           \o ExecuteActions(ec.eng, rule.actionStartIdx,
                                             rule.actionStartIdx + rule.actionCount),
                           << "rule", r - 1, TRUE, TRUE >>) ]

\* the body of the rule loop of evaluateRules for rules_[r]
EvaluateRule(eng, r, nowMs, log) ==
  LET rule    == eng.rules_[r]
      ec      == EvalConditions(eng, rule.conditionMask, 0, nowMs, log)
      tracked == IF ec.allMet # rule.lastConditionState
                 THEN [ rule EXCEPT !.lastConditionState = ec.allMet,
                                    !.lastConditionChangeMs = nowMs ]
                 ELSE rule
      debounced  == ElapsedMs(nowMs, tracked.lastConditionChangeMs)
                      >= tracked.debounceMs
      cooldownOk == ElapsedMs(nowMs, tracked.lastTriggerMs) >= tracked.cooldownMs
  IN IF ~ec.allMet \/ ~debounced \/ ~cooldownOk
     THEN [ eng |-> [ ec.eng EXCEPT !.rules_[r] = tracked ],
            log |-> Append(ec.log, << "rule", r - 1, ec.allMet, FALSE >>) ]
     ELSE [ eng |-> [ ec.eng EXCEPT
                        !.rules_[r] = [ tracked EXCEPT !.lastTriggerMs = nowMs ],
                        !.rulesTriggered_ = @ + 1 ],
            log |-> Append(ec.log
                           \o ExecuteActions(ec.eng, rule.actionStartIdx,
                                             rule.actionStartIdx + rule.actionCount),
                           << "rule", r - 1, TRUE, TRUE >>) ]

RECURSIVE EvalRulesFrom(_, _, _, _)
EvalRulesFrom(eng, r, nowMs, log) ==
  IF r > Len(eng.rules_) THEN [ eng |-> eng, log |-> log ]
  ELSE LET one == EvaluateRule(eng, r, nowMs, log)
       IN EvalRulesFrom(one.eng, r + 1, nowMs, one.log)

\* Engine::evaluateRules
evaluateRules(eng, nowMs) == EvalRulesFrom(eng, 1, nowMs, << >>)

\* ------------------------------------------------------------------------
\* State
\* ------------------------------------------------------------------------

VARIABLES
  engine,   \* Controller::engine_ (the Engine object)
  ctl,      \* Controller members: stream reassembly state, rules mode
  nvs,      \* Storage collaborator: the blob stored under "rules_bin"
  sent,     \* frames handed to transport_->send during the last step
  calls,    \* trace of the last step: engine calls made, with their results
  now,      \* millis()
  hist,     \* observations kept for the timing properties (not program state)
  ota,      \* the ESP32OTAService object (its members)
  rtos,     \* what the service holds in the platform: ring buffer contents,
            \* the OTA flash handle and partition, the delta worker task
  io        \* the CAN driver (received frames pending, running_) and the
            \* transport link (connected or not)

vars == << engine, ctl, nvs, sent, calls, now, hist, ota, rtos, io >>

\* The loop-side state as one value, so that a handler is a function from the
\* state before it to the state after it
\* (env: the outcomes of the platform calls the handler makes)
EnvOk == [ beginOk |-> TRUE, writeOk |-> TRUE, endOk |-> TRUE, bootOk |-> TRUE,
           created |-> TRUE, blobOk |-> TRUE ]
World == [ engine |-> engine, ctl |-> ctl, nvs |-> nvs,
           sent |-> << >>, calls |-> << >>,
           ota |-> ota, rtos |-> rtos, io |-> io, env |-> EnvOk ]

\* F applied to the value of x (x is computed once, whatever F does with it)
Then(x, F(_)) == CHOOSE r \in { F(v) : v \in { x } } : TRUE

Send(w, frame) == [ w EXCEPT !.sent = Append(@, frame) ]
Called(w, fn, ret) == [ w EXCEPT !.calls = Append(@, << fn, ret >>) ]

\* ------------------------------------------------------------------------
\* OTA service (src/src/drivers/ESP32OTAService.cpp).  A method is a function
\* of o = [ ota, rtos, log ]: the service members, the platform objects it
\* holds, and the trace of the call: << "status", s >> for each assignment to
\* status_, << "esp_err", op >> for each failing platform call and
\* << method, result, ... >> when the method returns.
\* ------------------------------------------------------------------------

\* ESP32OTAService members at their in-class initialisers (a task handle is
\* 0 for nullptr, 1 for the handle xTaskCreate stored); begin() has created
\* the ring buffer and the partition table has an inactive OTA partition
OTAServiceInit ==
  [ status_ |-> "IDLE", otaHandle_ |-> 0,
    expectedSize_ |-> 0, expectedCRC_ |-> ZeroWord,
    receivedBytes_ |-> 0, calculatedCRC_ |-> ZeroWord,
    deltaTask_ |-> 0, isDelta_ |-> FALSE, sourceCRC_ |-> ZeroWord,
    deltaComplete_ |-> FALSE, deltaResult_ |-> "IDLE" ]

\* ring / ringOut: the bytes in the ring buffer, oldest first, and how many
\*   of them are handed out to a reader that has not returned them yet;
\* handleOpen / written / bootUpdate: an esp_ota handle is open on the
\*   inactive partition, the bytes written through it, the partition is
\*   marked as the boot partition;
\* task: where the delta worker task stands ("none": no such task);
\* halted: the firmware has stopped executing
PlatformInit ==
  [ ring |-> << >>, ringOut |-> 0,
    handleOpen |-> FALSE, written |-> << >>, bootUpdate |-> FALSE,
    task |-> "none", halted |-> FALSE ]

\* the size of the inactive partition and of the ring buffer, and the most
\* bytes the patcher asks for in one read (scaled down from 8192 and 1024)
PartitionSize == 4
RingCapacity == 3
PatchReadMax == 2

SetStatus(o, s) ==
  [ o EXCEPT !.ota.status_ = s, !.log = Append(@, << "status", s >>) ]
Failed(o, op) == [ o EXCEPT !.log = Append(@, << "esp_err", op >>) ]
Returns(o, entry) == [ o EXCEPT !.log = Append(@, entry) ]

\* ESP32OTAService::notifyComplete (no completion callback is registered)
notifyComplete(o, status) == SetStatus(o, status)

\* the drain loop of abort and startDeltaUpdate: xRingbufferReceive hands out
\* nothing while an earlier item of a byte buffer has not been returned
DrainRing(o) ==
  IF o.rtos.ringOut > 0 THEN o ELSE [ o EXCEPT !.rtos.ring = << >> ]

\* esp_ota_begin succeeding: a fresh handle on the erased partition
esp_ota_begin(o) ==
  [ o EXCEPT !.rtos.handleOpen = TRUE, !.rtos.written = << >>,
             !.ota.otaHandle_ = 1 ]

\* ESP32OTAService::startFirmwareUpdate; beginOk: esp_ota_begin succeeds
startFirmwareUpdate(o, expectedSize, crc32, beginOk) ==
  IF o.ota.status_ # "IDLE" THEN Returns(o, << "startFirmwareUpdate", FALSE >>)
  ELSE IF expectedSize > PartitionSize
  THEN Returns(o, << "startFirmwareUpdate", FALSE >>)
  ELSE IF ~beginOk
  THEN Returns(Failed(o, "esp_ota_begin"), << "startFirmwareUpdate", FALSE >>)
  ELSE LET o1 == esp_ota_begin(o)
           o2 == [ o1 EXCEPT !.ota.expectedSize_ = expectedSize,
                             !.ota.expectedCRC_ = crc32,
                             !.ota.receivedBytes_ = 0,
                             !.ota.calculatedCRC_ = ZeroWord,
                             !.ota.isDelta_ = FALSE ]
       IN Returns(SetStatus(o2, "RECEIVING"), << "startFirmwareUpdate", TRUE >>)

\* writeFirmwareChunk without the overflow test
writeFirmwareChunk_NoOverflowTest(o, data, writeOk) ==
  IF o.ota.status_ # "RECEIVING" \/ o.ota.isDelta_
  THEN Returns(o, << "writeFirmwareChunk", FALSE, Len(data) >>)
  ELSE IF ~writeOk
  THEN Returns(notifyComplete(SetStatus(Failed(o, "esp_ota_write"), "ERROR_FLASH"),
                              "ERROR_FLASH"),
               << "writeFirmwareChunk", FALSE, Len(data) >>)
  ELSE Returns([ o EXCEPT !.rtos.written = @ \o data,
                          !.ota.receivedBytes_ = @ + Len(data),
                          !.ota.calculatedCRC_ = esp_crc32_le(@, data) ],
               << "writeFirmwareChunk", TRUE, Len(data) >>)

\* ESP32OTAService::writeFirmwareChunk; writeOk: esp_ota_write succeeds
writeFirmwareChunk(o, data, writeOk) ==
  IF o.ota.status_ # "RECEIVING" \/ o.ota.isDelta_
  THEN Returns(o, << "writeFirmwareChunk", FALSE, Len(data) >>)
  ELSE IF o.ota.receivedBytes_ + Len(data) > o.ota.expectedSize_
  THEN Returns(notifyComplete(SetStatus(o, "ERROR_SPACE"), "ERROR_SPACE"),
               << "writeFirmwareChunk", FALSE, Len(data) >>)
  ELSE IF ~writeOk
  THEN Returns(notifyComplete(SetStatus(Failed(o, "esp_ota_write"), "ERROR_FLASH"),
                              "ERROR_FLASH"),
               << "writeFirmwareChunk", FALSE, Len(data) >>)
  ELSE Returns([ o EXCEPT !.rtos.written = @ \o data,
                          !.ota.receivedBytes_ = @ + Len(data),
                          !.ota.calculatedCRC_ = esp_crc32_le(@, data) ],
               << "writeFirmwareChunk", TRUE, Len(data) >>)

\* finalizeFirmwareUpdate without the CRC comparison
finalizeFirmwareUpdate_NoCrcTest(o, endOk, bootOk) ==
  IF o.ota.status_ # "RECEIVING" \/ o.ota.isDelta_
  THEN Returns(o, << "finalizeFirmwareUpdate", FALSE >>)
  ELSE LET v == SetStatus(o, "VALIDATING")
       IN IF v.ota.receivedBytes_ # v.ota.expectedSize_
          THEN Returns(notifyComplete(SetStatus(v, "ERROR_SPACE"), "ERROR_SPACE"),
                       << "finalizeFirmwareUpdate", FALSE >>)
          ELSE LET e == [ v EXCEPT !.rtos.handleOpen = FALSE, !.ota.otaHandle_ = 0 ]
               IN IF ~endOk \/ ~bootOk
                  THEN Returns(notifyComplete(SetStatus(Failed(e, "esp_ota_end"),
                                                        "ERROR_FLASH"), "ERROR_FLASH"),
                               << "finalizeFirmwareUpdate", FALSE >>)
                  ELSE Returns(notifyComplete(
                                 SetStatus([ e EXCEPT !.rtos.bootUpdate = TRUE ],
                                           "SUCCESS"), "SUCCESS"),
                               << "finalizeFirmwareUpdate", TRUE >>)

\* ESP32OTAService::finalizeFirmwareUpdate; endOk / bootOk: esp_ota_end /
\* esp_ota_set_boot_partition succeed (esp_ota_end releases the handle
\* whatever it returns)
finalizeFirmwareUpdate(o, endOk, bootOk) ==
  IF o.ota.status_ # "RECEIVING" \/ o.ota.isDelta_
  THEN Returns(o, << "finalizeFirmwareUpdate", FALSE >>)
  ELSE LET v == SetStatus(o, "VALIDATING")
       IN IF v.ota.receivedBytes_ # v.ota.expectedSize_
          THEN Returns(notifyComplete(SetStatus(v, "ERROR_SPACE"), "ERROR_SPACE"),
                       << "finalizeFirmwareUpdate", FALSE >>)
          ELSE IF v.ota.calculatedCRC_ # v.ota.expectedCRC_
          THEN Returns(notifyComplete(SetStatus(v, "ERROR_CRC"), "ERROR_CRC"),
                       << "finalizeFirmwareUpdate", FALSE >>)
          ELSE LET e == [ v EXCEPT !.rtos.handleOpen = FALSE, !.ota.otaHandle_ = 0 ]
               IN IF ~endOk
                  THEN Returns(notifyComplete(SetStatus(Failed(e, "esp_ota_end"),
                                                        "ERROR_FLASH"), "ERROR_FLASH"),
                               << "finalizeFirmwareUpdate", FALSE >>)
                  ELSE IF ~bootOk
                  THEN Returns(notifyComplete(
                                 SetStatus(Failed(e, "esp_ota_set_boot_partition"),
                                           "ERROR_FLASH"), "ERROR_FLASH"),
                               << "finalizeFirmwareUpdate", FALSE >>)
                  ELSE Returns(notifyComplete(
                                 SetStatus([ e EXCEPT !.rtos.bootUpdate = TRUE ],
                                           "SUCCESS"), "SUCCESS"),
                               << "finalizeFirmwareUpdate", TRUE >>)

\* startDeltaUpdate without the test for a session in progress
startDeltaUpdate_NoIdleTest(o, patchSize, sourceCRC, beginOk) ==
  IF ~beginOk
  THEN Returns(Failed(o, "esp_ota_begin"), << "startDeltaUpdate", FALSE >>)
  ELSE LET o1 == esp_ota_begin(o)
           o2 == [ o1 EXCEPT !.ota.expectedSize_ = patchSize,
                             !.ota.sourceCRC_ = sourceCRC,
                             !.ota.receivedBytes_ = 0,
                             !.ota.isDelta_ = TRUE,
                             !.ota.deltaComplete_ = FALSE,
                             !.ota.deltaResult_ = "IDLE" ]
       IN Returns(DrainRing(SetStatus(o2, "RECEIVING")),
                  << "startDeltaUpdate", TRUE >>)

\* ESP32OTAService::startDeltaUpdate
startDeltaUpdate(o, patchSize, sourceCRC, beginOk) ==
  IF o.ota.status_ # "IDLE" THEN Returns(o, << "startDeltaUpdate", FALSE >>)
  ELSE IF ~beginOk
  THEN Returns(Failed(o, "esp_ota_begin"), << "startDeltaUpdate", FALSE >>)
  ELSE LET o1 == esp_ota_begin(o)
           o2 == [ o1 EXCEPT !.ota.expectedSize_ = patchSize,
                             !.ota.sourceCRC_ = sourceCRC,
                             !.ota.receivedBytes_ = 0,
                             !.ota.isDelta_ = TRUE,
                             !.ota.deltaComplete_ = FALSE,
                             !.ota.deltaResult_ = "IDLE" ]
       IN Returns(DrainRing(SetStatus(o2, "RECEIVING")),
                  << "startDeltaUpdate", TRUE >>)

\* ESP32OTAService::writeDeltaChunk: xRingbufferSend gives up after its
\* timeout when the bytes do not fit (nothing reads the ring while the
\* session is receiving)
writeDeltaChunk(o, data) ==
  IF o.ota.status_ # "RECEIVING" \/ ~o.ota.isDelta_
  THEN Returns(o, << "writeDeltaChunk", FALSE, Len(data) >>)
  ELSE IF Len(o.rtos.ring) + Len(data) > RingCapacity
  THEN Returns(o, << "writeDeltaChunk", FALSE, Len(data) >>)
  ELSE Returns([ o EXCEPT !.rtos.ring = @ \o data,
                          !.ota.receivedBytes_ = @ + Len(data) ],
               << "writeDeltaChunk", TRUE, Len(data) >>)

\* finalizeDeltaUpdate announcing VALIDATING instead of APPLYING
finalizeDeltaUpdate_Validating(o, created) ==
  IF o.ota.status_ # "RECEIVING" \/ ~o.ota.isDelta_
  THEN Returns(o, << "finalizeDeltaUpdate", FALSE >>)
  ELSE LET a == SetStatus(o, "VALIDATING")
       IN IF ~created
          THEN Returns(notifyComplete(SetStatus(Failed(a, "xTaskCreate"),
                                                "ERROR_FLASH"), "ERROR_FLASH"),
                       << "finalizeDeltaUpdate", FALSE >>)
          ELSE Returns([ a EXCEPT !.rtos.task = "start", !.ota.deltaTask_ = 1 ],
                       << "finalizeDeltaUpdate", TRUE >>)

\* ESP32OTAService::finalizeDeltaUpdate; created: xTaskCreate succeeds
finalizeDeltaUpdate(o, created) ==
  IF o.ota.status_ # "RECEIVING" \/ ~o.ota.isDelta_
  THEN Returns(o, << "finalizeDeltaUpdate", FALSE >>)
  ELSE LET a == SetStatus(o, "APPLYING")
       IN IF ~created
          THEN Returns(notifyComplete(SetStatus(Failed(a, "xTaskCreate"),
                                                "ERROR_FLASH"), "ERROR_FLASH"),
                       << "finalizeDeltaUpdate", FALSE >>)
          ELSE Returns([ a EXCEPT !.rtos.task = "start", !.ota.deltaTask_ = 1 ],
                       << "finalizeDeltaUpdate", TRUE >>)

\* loop() taking every completed worker for a successful one
ESP32OTAService_loop_AssumeSuccess(o) ==
  IF o.ota.isDelta_ /\ o.ota.deltaComplete_
  THEN Returns(notifyComplete(
                 SetStatus([ o EXCEPT !.ota.deltaComplete_ = FALSE,
                                      !.ota.deltaTask_ = 0 ],
                           "SUCCESS"), "SUCCESS"),
               << "loop", TRUE >>)
  ELSE Returns(o, << "loop", FALSE >>)

\* ESP32OTAService::needsPause
needsPause(ota_) == ota_.status_ \in { "APPLYING", "VALIDATING" }

\* ESP32OTAService::loop
ESP32OTAService_loop(o) ==
  IF o.ota.isDelta_ /\ o.ota.deltaComplete_
  THEN Returns(notifyComplete(
                 SetStatus([ o EXCEPT !.ota.deltaComplete_ = FALSE,
                                      !.ota.deltaTask_ = 0 ],
                           o.ota.deltaResult_), o.ota.deltaResult_),
               << "loop", TRUE >>)
  ELSE Returns(o, << "loop", FALSE >>)

\* ESP32OTAService::abort.  vTaskDelete on the handle of a task that has
\* already deleted itself is undefined: staleOutcome is what it does, "none"
\* (no visible effect) or "halt" (the firmware stops; abort does not return).
\* A worker deleted while it holds a ring item never returns the item.
abort(o, staleOutcome) ==
  IF o.ota.status_ = "IDLE" THEN Returns(o, << "abort", "IDLE" >>)
  ELSE IF o.ota.deltaTask_ # 0 /\ o.rtos.task = "none" /\ staleOutcome = "halt"
  THEN [ o EXCEPT !.rtos.halted = TRUE ]
  ELSE LET t == IF o.ota.deltaTask_ # 0
                THEN [ o EXCEPT !.rtos.task = "none", !.ota.deltaTask_ = 0 ]
                ELSE o
           h == IF t.ota.otaHandle_ # 0
                THEN [ t EXCEPT !.rtos.handleOpen = FALSE, !.ota.otaHandle_ = 0 ]
                ELSE t
           d == DrainRing(h)
           i == SetStatus(d, "IDLE")
       IN Returns([ i EXCEPT !.ota.isDelta_ = FALSE,
                             !.ota.receivedBytes_ = 0,
                             !.ota.calculatedCRC_ = ZeroWord,
                             !.ota.deltaComplete_ = FALSE ],
                  << "abort", o.ota.status_ >>)

\* ------------------------------------------------------------------------
\* The delta worker task (deltaWorkerTask / processDelta), one scheduling
\* step at a time.  The patcher itself (janpatch) is outside this
\* repository's sources: it reads the patch stream through ota_fread until a
\* read returns nothing and then reports success or failure.
\* ------------------------------------------------------------------------

\* processDelta up to the call of janpatch; allocOk: the three allocations
\* succeed
WorkerAllocate(o, allocOk) ==
  IF allocOk THEN [ o EXCEPT !.rtos.task = "patch" ]
  ELSE [ o EXCEPT !.ota.deltaResult_ = "ERROR_FLASH",
                  !.ota.deltaComplete_ = TRUE,
                  !.rtos.task = "exit" ]

\* ota_fread on the patch stream, up to and including xRingbufferReceiveUpTo;
\* an empty ring ends the patcher, with patchOk as its verdict
WorkerReceive(o, patchOk) ==
  IF o.rtos.ring = << >> \/ o.rtos.ringOut > 0
  THEN [ o EXCEPT !.rtos.task = IF patchOk THEN "patched" ELSE "failed" ]
  ELSE [ o EXCEPT !.rtos.ringOut = IF Len(o.rtos.ring) < PatchReadMax
                                   THEN Len(o.rtos.ring) ELSE PatchReadMax,
                  !.rtos.task = "copy" ]

\* ota_fread on the patch stream: memcpy and vRingbufferReturnItem
WorkerReturnItem(o) ==
  [ o EXCEPT !.rtos.ring = SubSeq(@, o.rtos.ringOut + 1, Len(@)),
             !.rtos.ringOut = 0,
             !.rtos.task = "patch" ]

\* processDelta after janpatch returned; endOk / bootOk as in
\* finalizeFirmwareUpdate
WorkerFinish(o, endOk, bootOk) ==
  LET e == [ o EXCEPT !.rtos.handleOpen = FALSE, !.ota.otaHandle_ = 0 ]
  IN IF o.rtos.task = "failed" \/ ~endOk \/ ~bootOk
     THEN [ e EXCEPT !.ota.deltaResult_ = "ERROR_FLASH",
                     !.ota.deltaComplete_ = TRUE,
                     !.rtos.task = "exit" ]
     ELSE [ e EXCEPT !.rtos.bootUpdate = TRUE,
                     !.log = Append(@, << "esp_ota_set_boot_partition", TRUE >>),
                     !.ota.deltaResult_ = "SUCCESS",
                     !.ota.deltaComplete_ = TRUE,
                     !.rtos.task = "exit" ]

\* deltaWorkerTask: vTaskDelete(nullptr)
WorkerExit(o) == [ o EXCEPT !.rtos.task = "none" ]

\* ------------------------------------------------------------------------
\* Controller (src/W4RP.cpp)
\* ------------------------------------------------------------------------

END_MARKER == << 69, 78, 68 >>                                          \* "END"
CMD_SET_RULES_RAM == << 83, 69, 84, 58, 82, 85, 76, 69, 83, 58, 82, 65, 77, 58 >>
                                                             \* "SET:RULES:RAM:"
CMD_SET_RULES_NVS == << 83, 69, 84, 58, 82, 85, 76, 69, 83, 58, 78, 86, 83, 58 >>
                                                             \* "SET:RULES:NVS:"
CMD_GET_RULES == << 71, 69, 84, 58, 82, 85, 76, 69, 83 >>         \* "GET:RULES"
CMD_DEBUG_START == << 68, 69, 66, 85, 71, 58, 83, 84, 65, 82, 84 >>
                                                                \* "DEBUG:START"
CMD_DEBUG_STOP == << 68, 69, 66, 85, 71, 58, 83, 84, 79, 80 >>   \* "DEBUG:STOP"
CMD_DEBUG_WATCH == << 68, 69, 66, 85, 71, 58, 87, 65, 84, 67, 72, 58 >>
                                                               \* "DEBUG:WATCH:"
CMD_OTA == << 79, 84, 65, 58 >>                                        \* "OTA:"
CMD_OTA_BEGIN == << 79, 84, 65, 58, 66, 69, 71, 73, 78, 58 >>    \* "OTA:BEGIN:"
CMD_OTA_DELTA == << 79, 84, 65, 58, 68, 69, 76, 84, 65, 58 >>    \* "OTA:DELTA:"
Colon == 58

\* Controller members at their in-class initialisers
ControllerInit ==
  [ streamType_ |-> "NONE", streamBuffer_ |-> << >>,
    streamExpectedLen_ |-> 0, streamExpectedCRC_ |-> ZeroWord,
    rulesMode_ |-> 0, bootCount_ |-> 0,
    lastStatusMs_ |-> 0, lastDebugTxMs_ |-> 0 ]

\* the CAN driver after begin() and the transport before a peer connects
IoInit == [ rxQueue |-> << >>, running |-> TRUE, connected |-> FALSE ]

\* the OTA service as the o = [ ota, rtos, log ] its methods work on, and the
\* state after a method returned o (its trace goes to the trace of the step)
Service(w) == [ ota |-> w.ota, rtos |-> w.rtos, log |-> << >> ]
AfterService(w, o) ==
  [ w EXCEPT !.ota = o.ota, !.rtos = o.rtos, !.calls = @ \o o.log ]

\* what the method that just returned o returned
Result(o) == o.log[Len(o.log)][2]

\* TWAICanBus::stop / resume (twai_stop and twai_start succeeding)
TWAICanBus_stop(w) == [ w EXCEPT !.io.running = FALSE ]
TWAICanBus_resume(w) == [ w EXCEPT !.io.running = TRUE ]

\* esp_restart(): this run of the firmware ends
esp_restart(w) == [ w EXCEPT !.rtos.halted = TRUE ]

\* Controller::saveRulesToNvs writing one byte less than the engine retained
saveRulesToNvs_OneShort(w) ==
  IF w.engine.rulesetBinary_ = << >> THEN w
  ELSE IF w.env.blobOk
  THEN Called([ w EXCEPT !.nvs = Tail(w.engine.rulesetBinary_) ], "writeBlob", TRUE)
  ELSE Called(w, "writeBlob", FALSE)

\* Controller::saveRulesToNvs (blobOk: Storage::writeBlob succeeds; a failed
\* write leaves the stored bytes as they were)
saveRulesToNvs(w) ==
  IF w.engine.rulesetBinary_ = << >> THEN w
  ELSE IF w.env.blobOk
  THEN Called([ w EXCEPT !.nvs = w.engine.rulesetBinary_ ], "writeBlob", TRUE)
  ELSE Called(w, "writeBlob", FALSE)

\* the tail of every finalizeStream path for buffered streams
ResetStream(w) ==
  [ w EXCEPT !.ctl.streamType_ = "NONE", !.ctl.streamBuffer_ = << >> ]

\* Controller::finalizeStream, the two OTA stream kinds
finalizeOtaStream(w) ==
  IF w.ctl.streamType_ = "OTA_FULL"
  THEN LET o  == finalizeFirmwareUpdate(Service(w), w.env.endOk, w.env.bootOk)
           w1 == AfterService(w, o)
       IN IF Result(o)
          THEN esp_restart(Send(w1, "OTA:SUCCESS"))
          ELSE [ TWAICanBus_resume(Send(w1, "OTA:ERROR"))
                   EXCEPT !.ctl.streamType_ = "NONE" ]
  ELSE LET o  == finalizeDeltaUpdate(Service(w), w.env.created)
           w1 == AfterService(w, o)
       IN IF Result(o)
          THEN [ w1 EXCEPT !.ctl.streamType_ = "NONE" ]
          ELSE [ TWAICanBus_resume(Send(w1, "OTA:ERROR"))
                   EXCEPT !.ctl.streamType_ = "NONE" ]

\* Controller::finalizeStream, a verified stream handed to the engine
processStream(w) ==
  IF w.ctl.streamType_ = "DEBUG_WATCH"
  THEN LET d == loadDebugSignals(w.engine, w.ctl.streamBuffer_)
       IN ResetStream(Called([ w EXCEPT !.engine = d.eng ],
                             "loadDebugSignals", d.count))
  ELSE IF w.ctl.streamType_ \in {"RULESET_RAM", "RULESET_NVS"}
  THEN LET r  == loadRuleset(w.engine, w.ctl.streamBuffer_)
           w1 == Called([ w EXCEPT !.engine = r.eng ], "loadRuleset", r.ok)
       IN IF r.ok
          THEN LET w2 == [ w1 EXCEPT !.ctl.rulesMode_ =
                             IF w.ctl.streamType_ = "RULESET_NVS" THEN 2 ELSE 1 ]
               IN ResetStream(IF w.ctl.streamType_ = "RULESET_NVS"
                              THEN saveRulesToNvs(w2) ELSE w2)
          ELSE LET unknownCap == r.eng.unknownCapability_
               IN ResetStream(IF unknownCap # << >>
                              THEN Send(w1, << "ERR:CAP_UNKNOWN:", unknownCap >>)
                              ELSE Send(w1, "ERR:RULES_INVALID"))
  ELSE ResetStream(w)

\* Controller::finalizeStream without the CRC comparison
finalizeStream_NoCrcTest(w) ==
  IF w.ctl.streamType_ \in { "OTA_FULL", "OTA_DELTA" } THEN finalizeOtaStream(w)
  ELSE IF Len(w.ctl.streamBuffer_) # w.ctl.streamExpectedLen_
  THEN ResetStream(Send(w, "ERR:LEN_MISMATCH"))
  ELSE processStream(w)

\* Controller::finalizeStream keeping the buffer of a stream of the wrong
\* length
finalizeStream_LenKeepsBuffer(w) ==
  IF w.ctl.streamType_ \in { "OTA_FULL", "OTA_DELTA" } THEN finalizeOtaStream(w)
  ELSE IF Len(w.ctl.streamBuffer_) # w.ctl.streamExpectedLen_
  THEN [ Send(w, "ERR:LEN_MISMATCH") EXCEPT !.ctl.streamType_ = "NONE" ]
  ELSE IF calculateCRC32(w.ctl.streamBuffer_) # w.ctl.streamExpectedCRC_
  THEN ResetStream(Send(w, "ERR:CRC_FAIL"))
  ELSE processStream(w)

\* Controller::finalizeStream
finalizeStream(w) ==
  IF w.ctl.streamType_ \in { "OTA_FULL", "OTA_DELTA" } THEN finalizeOtaStream(w)
  ELSE IF Len(w.ctl.streamBuffer_) # w.ctl.streamExpectedLen_
  THEN ResetStream(Send(w, "ERR:LEN_MISMATCH"))
  ELSE IF calculateCRC32(w.ctl.streamBuffer_) # w.ctl.streamExpectedCRC_
  THEN ResetStream(Send(w, "ERR:CRC_FAIL"))
  ELSE processStream(w)

\* Controller::handleStreamData
handleStreamData(w, data) ==
  IF StringEquals(data, END_MARKER) THEN finalizeStream(w)
  ELSE IF w.ctl.streamType_ = "OTA_FULL"
  THEN AfterService(w, writeFirmwareChunk(Service(w), data, w.env.writeOk))
  ELSE IF w.ctl.streamType_ = "OTA_DELTA"
  THEN AfterService(w, writeDeltaChunk(Service(w), data))
  ELSE [ w EXCEPT !.ctl.streamBuffer_ = @ \o data ]

\* the common body of the three stream-opening commands
OpenStream(w, packet, prefixLen, type) ==
  LET colon1 == indexOf(packet, Colon, prefixLen)
  IN IF colon1 > prefixLen
     THEN [ w EXCEPT
              !.ctl.streamExpectedLen_ = toInt(substring(packet, prefixLen, colon1)),
              !.ctl.streamExpectedCRC_ = strtoul10(substringFrom(packet, colon1 + 1)),
              !.ctl.streamType_ = type,
              !.ctl.streamBuffer_ = << >> ]
     ELSE w

\* the frames of a chunked transfer of bytes: at most mtu bytes each
RECURSIVE ChunkFrames(_, _)
ChunkFrames(bytes, mtu) ==
  IF bytes = << >> THEN << >>
  ELSE IF Len(bytes) <= mtu THEN << bytes >>
  ELSE << SubSeq(bytes, 1, mtu) >> \o ChunkFrames(SubSeq(bytes, mtu + 1, Len(bytes)), mtu)

RECURSIVE SendAll(_, _)
SendAll(w, frames) ==
  IF frames = << >> THEN w ELSE SendAll(Send(w, Head(frames)), Tail(frames))

\* Communication::getMTU
Mtu == 128

\* Controller::sendRules ending after the first chunk
sendRules_OneChunk(w) ==
  LET rules == w.engine.rulesetBinary_
  IN IF rules = << >> THEN Send(w, "ERR:NO_RULES")
     ELSE Send(Send(Send(w, "BEGIN"), Head(ChunkFrames(rules, Mtu))),
               << "END:", DecOfInt(Len(rules)), DecOfWord(w.engine.rulesetCRC_) >>)

\* Controller::sendRules
sendRules(w) ==
  LET rules == w.engine.rulesetBinary_
  IN IF rules = << >> THEN Send(w, "ERR:NO_RULES")
     ELSE Send(SendAll(Send(w, "BEGIN"), ChunkFrames(rules, Mtu)),
               << "END:", DecOfInt(Len(rules)), DecOfWord(w.engine.rulesetCRC_) >>)

\* OTA:BEGIN and OTA:DELTA with the last session aborted before the start
OpenOta_AbortFirst(w, packet, delta) ==
  LET colon1 == indexOf(packet, Colon, 10)
  IN IF colon1 > 10
     THEN LET size == toInt(substring(packet, 10, colon1))
              crc  == strtoul16(substringFrom(packet, colon1 + 1))
              o    == IF delta
                      THEN startDeltaUpdate(abort(Service(w), "none"), size, crc, w.env.beginOk)
                      ELSE startFirmwareUpdate(abort(Service(w), "none"), size, crc, w.env.beginOk)
              w1   == AfterService(w, o)
          IN IF Result(o)
             THEN Send(TWAICanBus_stop(
                         [ w1 EXCEPT !.ctl.streamType_ =
                             IF delta THEN "OTA_DELTA" ELSE "OTA_FULL" ]),
                       "OTA:READY")
             ELSE Send(w1, "OTA:ERROR")
     ELSE w

\* the common body of OTA:BEGIN and OTA:DELTA
OpenOta(w, packet, delta) ==
  LET colon1 == indexOf(packet, Colon, 10)
  IN IF colon1 > 10
     THEN LET size == toInt(substring(packet, 10, colon1))
              crc  == strtoul16(substringFrom(packet, colon1 + 1))
              o    == IF delta
                      THEN startDeltaUpdate(Service(w), size, crc, w.env.beginOk)
                      ELSE startFirmwareUpdate(Service(w), size, crc, w.env.beginOk)
              w1   == AfterService(w, o)
          IN IF Result(o)
             THEN Send(TWAICanBus_stop(
                         [ w1 EXCEPT !.ctl.streamType_ =
                             IF delta THEN "OTA_DELTA" ELSE "OTA_FULL" ]),
                       "OTA:READY")
             ELSE Send(w1, "OTA:ERROR")
     ELSE w

\* Controller::handleCommand (GET:PROFILE apart)
handleCommand(w, data) ==
  LET packet == trim(data)
  IN IF StringEquals(packet, CMD_GET_RULES) THEN sendRules(w)
     ELSE IF StringEquals(packet, CMD_DEBUG_START)
     THEN [ w EXCEPT !.engine = setDebugMode(@, TRUE) ]
     ELSE IF StringEquals(packet, CMD_DEBUG_STOP)
     THEN [ w EXCEPT !.engine = clearDebugSignals(setDebugMode(@, FALSE)) ]
     ELSE IF startsWith(packet, CMD_DEBUG_WATCH)
     THEN OpenStream(w, packet, 12, "DEBUG_WATCH")
     ELSE IF startsWith(packet, CMD_SET_RULES_RAM)
     THEN OpenStream(w, packet, 14, "RULESET_RAM")
     ELSE IF startsWith(packet, CMD_SET_RULES_NVS)
     THEN OpenStream(w, packet, 14, "RULESET_NVS")
     ELSE IF startsWith(packet, CMD_OTA)
     THEN IF startsWith(packet, CMD_OTA_BEGIN) THEN OpenOta(w, packet, FALSE)
          ELSE IF startsWith(packet, CMD_OTA_DELTA) THEN OpenOta(w, packet, TRUE)
          ELSE w
     ELSE w

\* the transport's onReceive callback installed by the constructor
onReceive(w, data) ==
  IF w.ctl.streamType_ # "NONE" THEN handleStreamData(w, data)
  ELSE handleCommand(w, data)

\* the onConnectionChange callback leaving the debug overlay in place
onConnectionChange_KeepOverlay(w, connected) ==
  IF ~connected
  THEN [ w EXCEPT !.ctl.streamType_ = "NONE",
                  !.ctl.streamBuffer_ = << >>,
                  !.engine = setDebugMode(@, FALSE) ]
  ELSE w

\* the transport's onConnectionChange callback installed by the constructor
onConnectionChange(w, connected) ==
  IF ~connected
  THEN [ w EXCEPT !.ctl.streamType_ = "NONE",
                  !.ctl.streamBuffer_ = << >>,
                  !.engine = clearDebugSignals(setDebugMode(@, FALSE)) ]
  ELSE w

\* Controller::sendStatus, through Communication::sendStatus
sendStatus(w, nowMs) ==
  IF ~w.io.connected THEN w
  ELSE Called(w, "sendStatus",
              << w.ctl.rulesMode_, Len(w.engine.signals_), Len(w.engine.rules_),
                 Len(w.engine.signals_), nowMs, w.ctl.bootCount_ >>)

\* the least time between two debug frames
DebugPaceMs == 10

\* Controller::sendDebugUpdates without the rate limit
sendDebugUpdates_NoRateLimit(w, nowMs) ==
  LET p == popDirtyDebugSignal(w.engine)
      w1 == [ w EXCEPT !.engine = p.eng ]
  IN IF p.ok
     THEN [ Called(Send(w1, << "D:S:", p.sig.canId, p.sig.startBit, p.sig.bitLength,
                               IF p.sig.bigEndian THEN 1 ELSE 0,
                               p.sig.factor, p.sig.offset, p.sig.value >>),
                   "sendDebugUpdates", "sent")
              EXCEPT !.ctl.lastDebugTxMs_ = nowMs ]
     ELSE Called(w1, "sendDebugUpdates", "empty")

\* Controller::sendDebugUpdates; the trace tells how the call ended: at the
\* rate limit, with a frame sent, or with nothing to pop
sendDebugUpdates(w, nowMs) ==
  IF ElapsedMs(nowMs, w.ctl.lastDebugTxMs_) < DebugPaceMs
  THEN Called(w, "sendDebugUpdates", "limited")
  ELSE LET p == popDirtyDebugSignal(w.engine)
           w1 == [ w EXCEPT !.engine = p.eng ]
       IN IF p.ok
          THEN [ Called(Send(w1, << "D:S:", p.sig.canId, p.sig.startBit,
                                    p.sig.bitLength,
                                    IF p.sig.bigEndian THEN 1 ELSE 0,
                                    p.sig.factor, p.sig.offset, p.sig.value >>),
                        "sendDebugUpdates", "sent")
                   EXCEPT !.ctl.lastDebugTxMs_ = nowMs ]
          ELSE Called(w1, "sendDebugUpdates", "empty")

\* the receive loop of Controller::loop: TWAICanBus::receive until it fails
RECURSIVE DrainCan(_, _)
DrainCan(w, nowMs) ==
  IF ~w.io.running \/ w.io.rxQueue = << >> THEN w
  ELSE LET frame == Head(w.io.rxQueue)
       IN DrainCan(Called([ w EXCEPT !.io.rxQueue = Tail(@),
                                     !.engine = processCanFrame(@, frame, nowMs) ],
                          "processCanFrame", frame.id),
                   nowMs)

\* the status period
StatusPeriodMs == 5000

\* engine_.evaluateRules() as Controller::loop calls it
LoopEvaluate(w, nowMs) ==
  Then(evaluateRules(w.engine, nowMs),
       LAMBDA e : [ w EXCEPT !.engine = e.eng,
                             !.calls = Append(@, << "evaluateRules", Len(e.log) >>)
                                       \o e.log ])

\* the debug and status duties of Controller::loop
LoopReport(w, nowMs) ==
  Then(IF w.engine.debugMode_ THEN sendDebugUpdates(w, nowMs) ELSE w,
       LAMBDA w3 : IF ElapsedMs(nowMs, w3.ctl.lastStatusMs_) >= StatusPeriodMs
                   THEN [ sendStatus(w3, nowMs) EXCEPT !.ctl.lastStatusMs_ = nowMs ]
                   ELSE w3)

\* otaService_->loop() as Controller::loop calls it
LoopOta(w) ==
  Then(ESP32OTAService_loop(Service(w)), LAMBDA o : AfterService(w, o))

\* Controller::loop from the receive loop on
LoopBody(w, nowMs) ==
  Then(DrainCan(w, nowMs),
       LAMBDA w1 : Then(LoopEvaluate(w1, nowMs),
                        LAMBDA w2 : Then(LoopReport(w2, nowMs), LoopOta)))

\* Controller::loop without the pause test
Controller_loop_NoPause(w, nowMs) ==
  LoopBody(Called(w, "Controller_loop", needsPause(w.ota)), nowMs)

\* Controller::loop; the trace opens with << "Controller_loop", paused >>
Controller_loop(w, nowMs) ==
  IF needsPause(w.ota)
  THEN LoopOta(Called(w, "Controller_loop", TRUE))
  ELSE LoopBody(Called(w, "Controller_loop", FALSE), nowMs)

\* ------------------------------------------------------------------------
\* Inputs of the installation specification
\* ------------------------------------------------------------------------

CapA == << 97 >>          \* "a"
CapB == << 98 >>          \* "b"
CapIds == { CapA, CapB }

SigSpeed == [ canId |-> 256, startBit |-> 0, bitLength |-> 8, flags |-> 0,
              factor |-> 1, offset |-> 0 ]
CondPositive == [ signalIdx |-> 0, operation |-> OpGT, value1 |-> 0, value2 |-> 0 ]
CondBadSignal == [ signalIdx |-> 3, operation |-> OpGT, value1 |-> 0, value2 |-> 0 ]
ActFirstString == [ capStrIdx |-> 0, paramCount |-> 0, paramStartIdx |-> 0 ]
RuleOne == [ conditionMask |-> 1, actionStartIdx |-> 0, actionCount |-> 1,
             debounceDs |-> 0, cooldownDs |-> 0 ]

\* a valid ruleset whose single action names capability "a" / "b"
RulesA == MkRules(<< SigSpeed >>, << CondPositive >>, << ActFirstString >>, << >>,
                  << RuleOne >>, CapA \o << 0 >>)
RulesB == MkRules(<< SigSpeed >>, << CondPositive >>, << ActFirstString >>, << >>,
                  << RuleOne >>, CapB \o << 0 >>)
\* well-formed container (magic, sizes, CRC) whose condition names signal 3 of 1
RulesBadIndex == MkRules(<< SigSpeed >>, << CondBadSignal >>, << ActFirstString >>,
                         << >>, << RuleOne >>, CapA \o << 0 >>)

InstallContainers == { RulesA, RulesB, RulesBadIndex }

\* the size of the first of the two frames a container is sent in
FirstChunkLen == 40
\* the most bytes a host pushes into one stream before END
MaxStreamBytes == 76

ChunksOf(c) == { SubSeq(c, 1, FirstChunkLen), SubSeq(c, FirstChunkLen + 1, Len(c)) }

SetRulesCmd(prefix, c) ==
  prefix \o DecOfInt(Len(c)) \o << Colon >> \o DecOfWord(calculateCRC32(c))

InstallFrames ==
  { END_MARKER }
  \cup UNION { ChunksOf(c) : c \in InstallContainers }
  \cup { SetRulesCmd(CMD_SET_RULES_RAM, c) : c \in InstallContainers }
  \cup { SetRulesCmd(CMD_SET_RULES_NVS, c) : c \in InstallContainers }

\* ------------------------------------------------------------------------
\* Installation specification: capability registration and SET:RULES streams
\* ------------------------------------------------------------------------

Commit(w) ==
  \E v \in { w } :
    /\ engine' = v.engine
    /\ ctl' = v.ctl
    /\ nvs' = v.nvs
    /\ sent' = v.sent
    /\ calls' = v.calls

\* what has been seen of the present OTA session: the result the worker
\* wrote when it set deltaComplete_, whether the worker marked the inactive
\* partition bootable, how many times loop() adopted a worker result
SessionInit == [ result |-> "none", bootMarked |-> FALSE, adopted |-> 0 ]

Logged(log, fn, ret) == \E i \in DOMAIN log : log[i][1] = fn /\ log[i][2] = ret

\* the session observations after a step from (otaBefore) that gave o
ObserveSession(h, otaBefore, o) ==
  LET base == IF otaBefore.status_ = "IDLE" /\ o.ota.status_ = "RECEIVING"
              THEN SessionInit ELSE h.session
  IN [ h EXCEPT !.session =
         [ result |-> IF ~otaBefore.deltaComplete_ /\ o.ota.deltaComplete_
                      THEN o.ota.deltaResult_ ELSE base.result,
           bootMarked |-> base.bootMarked
                            \/ Logged(o.log, "esp_ota_set_boot_partition", TRUE),
           adopted |-> IF Logged(o.log, "loop", TRUE)
                       THEN base.adopted + 1 ELSE base.adopted ] ]

\* nothing observed yet: one entry per rule / per condition of the engine,
\* -1 standing for "never" / "not at present"
HistInit(eng) ==
  [ conjSince    |-> [ r \in DOMAIN eng.rules_ |-> -1 ],
    evalSince    |-> [ r \in DOMAIN eng.rules_ |-> -1 ],
    lastFire     |-> [ r \in DOMAIN eng.rules_ |-> -1 ],
    prevFire     |-> [ r \in DOMAIN eng.rules_ |-> -1 ],
    nonzeroSince |-> [ c \in DOMAIN eng.conditions_ |-> -1 ],
    session      |-> SessionInit ]

Init ==
  /\ engine = EngineInit
  /\ ctl = ControllerInit
  /\ nvs = << >>
  /\ sent = << >>
  /\ calls = << >>
  /\ now = 0
  /\ hist = HistInit(EngineInit)
  /\ ota = OTAServiceInit
  /\ rtos = PlatformInit
  /\ io = IoInit

\* Controller::registerCapability
RegisterCapability(id) ==
  /\ Commit([ World EXCEPT !.engine = registerCapability(engine, id) ])
  /\ UNCHANGED << now, hist, ota, rtos, io >>

\* a peer connects to the transport
Connect ==
  /\ ~io.connected
  /\ Commit(Called(onConnectionChange(World, TRUE), "onConnectionChange", TRUE))
  /\ io' = [ io EXCEPT !.connected = TRUE ]
  /\ UNCHANGED << now, hist, ota, rtos >>

\* the peer is gone (the trace entry also tells what the callback found: the
\* stream kind, the bytes buffered and the size of the debug overlay)
Disconnect ==
  /\ io.connected
  /\ Commit([ onConnectionChange(World, FALSE) EXCEPT !.calls =
               Append(@, << "onConnectionChange", FALSE, ctl.streamType_,
                            Len(ctl.streamBuffer_), Len(engine.debugSignals_) >>) ])
  /\ io' = [ io EXCEPT !.connected = FALSE ]
  /\ UNCHANGED << now, hist, ota, rtos >>

\* a frame arrives on the transport
Receive(frame) ==
  /\ io.connected
  /\ ctl.streamType_ # "NONE" /\ frame # END_MARKER
       => Len(ctl.streamBuffer_) + Len(frame) <= MaxStreamBytes
  /\ Commit(onReceive(World, frame))
  /\ UNCHANGED << now, hist, ota, rtos, io >>

Next ==
  \/ \E id \in CapIds : RegisterCapability(id)
  \/ Connect
  \/ \E frame \in InstallFrames : Receive(frame)

Spec == Init /\ [][Next]_vars

\* ------------------------------------------------------------------------
\* Properties of installation
\* ------------------------------------------------------------------------

\* the step just taken called Engine::loadRuleset and it returned false
LoadFailed(c) == \E i \in DOMAIN c : c[i] = << "loadRuleset", FALSE >>

\* what Engine::loadRuleset must leave alone when it fails
RulesetState(eng) ==
  << eng.signals_, eng.conditions_, eng.actions_, eng.rules_,
     Len(eng.signals_), Len(eng.conditions_), Len(eng.actions_), Len(eng.rules_),
     eng.rulesetBinary_, eng.rulesetCRC_ >>

\* C1: whenever Engine::loadRuleset returns false (parse/validation failure
\* or an unregistered capability), after any earlier installs, the signal,
\* condition, action and rule tables and their counts, the retained ruleset
\* bytes and the ruleset CRC are what they were before the call.
C1_InstallAtomic ==
  [][ LoadFailed(calls') => RulesetState(engine') = RulesetState(engine) ]_vars

\* C1 witness: an install has failed for an unregistered capability while an
\* earlier ruleset is installed
C1_Witness ==
  /\ LoadFailed(calls)
  /\ engine.unknownCapability_ # << >>
  /\ engine.rulesetBinary_ # << >>
  /\ engine.unknownCapability_ \notin engine.handlers_

\* the reply the orchestrator owes for a failed install of buf given the
\* registered handlers: the cause is decided on this container alone
FailureReplyFor(buf, handlers) ==
  LET p == parseRules(buf)
  IN IF p.ok /\ FirstUnknown(p.actions, handlers, 1) # << >>
     THEN << "ERR:CAP_UNKNOWN:", FirstUnknown(p.actions, handlers, 1) >>
     ELSE "ERR:RULES_INVALID"

\* C2: when a stream passes the length and CRC checks but the install fails,
\* the reply is ERR:CAP_UNKNOWN:<id> exactly when this install failed because
\* capability <id> of this container is not registered, and ERR:RULES_INVALID
\* in every other case, whatever earlier installs did.
C2_ReplyClassified ==
  [][ LoadFailed(calls') =>
        sent' = << FailureReplyFor(ctl.streamBuffer_, engine.handlers_) >> ]_vars

\* ------------------------------------------------------------------------
\* Evaluation specification: an installed ruleset, CAN frames and rule
\* evaluations under a running clock.  Controller::loop drains the received
\* frames through processCanFrame and then calls evaluateRules once, so its
\* runs are the interleavings of the two engine calls taken here.
\* ------------------------------------------------------------------------

\* signal 0 = byte 0 and signal 1 = byte 1 of the frames with id 0x100
SigByte0 == [ canId |-> 256, startBit |-> 0, bitLength |-> 8, flags |-> 0,
              factor |-> 1, offset |-> 0 ]
SigByte1 == [ canId |-> 256, startBit |-> 8, bitLength |-> 8, flags |-> 0,
              factor |-> 1, offset |-> 0 ]

\* the timings of the ruleset: debounce and cooldown in deciseconds, hold in ms
DebounceDs == 1
CooldownDs == 2
HoldMs == 20

CondHold == [ signalIdx |-> 1, operation |-> OpHOLD, value1 |-> HoldMs, value2 |-> 0 ]

\* "signal 0 > 0", debounced and cooled down, runs "a"
RuleTimed == [ conditionMask |-> 1, actionStartIdx |-> 0, actionCount |-> 1,
               debounceDs |-> DebounceDs, cooldownDs |-> CooldownDs ]
\* "signal 0 > 0 and signal 1 held non-zero for HoldMs" runs "a"
RuleHeld == [ conditionMask |-> 3, actionStartIdx |-> 0, actionCount |-> 1,
              debounceDs |-> 0, cooldownDs |-> 0 ]

RulesTimed == MkRules(<< SigByte0 >>, << CondPositive >>, << ActFirstString >>,
                      << >>, << RuleTimed >>, CapA \o << 0 >>)
RulesHeld == MkRules(<< SigByte0, SigByte1 >>, << CondPositive, CondHold >>,
                     << ActFirstString >>, << >>, << RuleHeld >>, CapA \o << 0 >>)

\* the rulesets the evaluation specification starts from
EvalRulesets == { RulesTimed, RulesHeld }

\* the clock advances in steps of TickMs up to MaxClockMs
TickMs == 10
MaxClockMs == 40

\* evaluations are taken while fewer than MaxTriggered firings were counted
MaxTriggered == 3

EvalFrames ==
  { [ id |-> 256, data |-> << b0, b1, 0, 0, 0, 0, 0, 0 >> ] : b0, b1 \in 0..1 }
  \cup { [ id |-> 512, data |-> << 1, 1, 0, 0, 0, 0, 0, 0 >> ] }

\* the rule's conjunction on the present signal values, for a rule without
\* HOLD conditions (nothing but the signal values enters its conditions)
IsPlain(eng, r) ==
  \A c \in DOMAIN eng.conditions_ :
    BitOf(eng.rules_[r].conditionMask, c - 1) = 1
      => eng.conditions_[c].operation # OpHOLD

ConjTrue(eng, r) ==
  \A c \in DOMAIN eng.conditions_ :
    BitOf(eng.rules_[r].conditionMask, c - 1) = 1
      => evaluateCondition(eng, c, 0).ret

\* since when x has held without interruption, given whether it holds at t
Since(old, holds, t) == IF ~holds THEN -1 ELSE IF old = -1 THEN t ELSE old

\* the trace says rule r (0-based) fired / found its conjunction true
Fired(c, r) == \E i \in DOMAIN c : c[i] = << "rule", r, TRUE, TRUE >>
AllMet(c, r) == \E i \in DOMAIN c : \E f \in BOOLEAN : c[i] = << "rule", r, TRUE, f >>
CondTrue(c, k) == \E i \in DOMAIN c : c[i] = << "evaluateCondition", k, TRUE >>

EvalInit ==
  /\ \E rules \in EvalRulesets :
       engine = loadRuleset(registerCapability(EngineInit, CapA), rules).eng
  /\ ctl = [ ControllerInit EXCEPT !.rulesMode_ = 1 ]
  /\ nvs = << >>
  /\ sent = << >>
  /\ calls = << >>
  /\ now = 0
  /\ hist = HistInit(engine)
  /\ ota = OTAServiceInit
  /\ rtos = PlatformInit
  /\ io = IoInit

\* time passes
Tick ==
  /\ now + TickMs <= MaxClockMs
  /\ now' = now + TickMs
  /\ calls' = << >>
  /\ UNCHANGED << engine, ctl, nvs, sent, hist, ota, rtos, io >>

\* Engine::processCanFrame on a received frame
ProcessCanFrame(frame) ==
  /\ engine' = processCanFrame(engine, frame, now)
  /\ calls' = << >>
  /\ hist' = [ hist EXCEPT
       !.conjSince = [ r \in DOMAIN @ |->
                         IF IsPlain(engine, r)
                         THEN Since(@[r], ConjTrue(engine', r), now) ELSE -1 ],
       !.nonzeroSince = [ c \in DOMAIN @ |->
                            IF engine.signals_[engine.conditions_[c].signalIdx + 1].canId
                                 = frame.id
                            THEN Since(@[c],
                                       engine'.signals_[engine.conditions_[c].signalIdx + 1].value # 0,
                                       now)
                            ELSE @[c] ] ]
  /\ UNCHANGED << ctl, nvs, sent, now, ota, rtos, io >>

\* Engine::evaluateRules
EvaluateRules ==
  LET e == evaluateRules(engine, now)
  IN /\ engine.rulesTriggered_ < MaxTriggered
     /\ engine' = e.eng
     /\ calls' = e.log
     /\ hist' = [ hist EXCEPT
          !.evalSince = [ r \in DOMAIN @ |-> Since(@[r], AllMet(e.log, r - 1), now) ],
          !.lastFire = [ r \in DOMAIN @ |-> IF Fired(e.log, r - 1) THEN now ELSE @[r] ],
          !.prevFire = [ r \in DOMAIN @ |->
                           IF Fired(e.log, r - 1) THEN hist.lastFire[r] ELSE @[r] ] ]
     /\ UNCHANGED << ctl, nvs, sent, now, ota, rtos, io >>

EvalNext ==
  \/ Tick
  \/ \E frame \in EvalFrames : ProcessCanFrame(frame)
  \/ EvaluateRules

EvalSpec == EvalInit /\ [][EvalNext]_vars

\* ------------------------------------------------------------------------
\* Properties of rule timing
\* ------------------------------------------------------------------------

\* C3 as stated, on the rules without HOLD conditions: a rule fires at an
\* evaluation at time t only if its conjunction has been true on the signal
\* values without interruption (across every frame processed) for at least
\* its debounce time before t, and not before its cooldown has passed since
\* its previous firing.
C3_DebounceContinuous ==
  \A r \in DOMAIN engine.rules_ :
    IsPlain(engine, r) /\ Fired(calls, r - 1) =>
      /\ hist.conjSince[r] # -1
      /\ now - hist.conjSince[r] >= engine.rules_[r].debounceMs
      /\ hist.prevFire[r] # -1 =>
           hist.lastFire[r] - hist.prevFire[r] >= engine.rules_[r].cooldownMs

\* C3: a rule with debounce D and cooldown C fires at an evaluation at time t
\* only if its conjunction evaluated true at every evaluateRules call of a
\* span of at least D ms ending at t, and after firing at t it does not fire
\* again at any evaluation before t + C.
C3_DebounceCooldown ==
  \A r \in DOMAIN engine.rules_ :
    Fired(calls, r - 1) =>
      /\ hist.evalSince[r] # -1
      /\ now - hist.evalSince[r] >= engine.rules_[r].debounceMs
      /\ hist.prevFire[r] # -1 =>
           hist.lastFire[r] - hist.prevFire[r] >= engine.rules_[r].cooldownMs

\* C3 witness: the debounced rule fires for the second time
C3_Witness ==
  /\ Fired(calls, 0)
  /\ engine.rules_[1].debounceMs > 0 /\ engine.rules_[1].cooldownMs > 0
  /\ hist.prevFire[1] # -1

\* C4: a HOLD condition evaluates true only if every frame decoded for its
\* signal during at least the preceding hold time carried a non-zero value
\* (a zero sample restarts the hold), whatever else was evaluated meanwhile.
C4_HoldContinuous ==
  \A c \in DOMAIN engine.conditions_ :
    engine.conditions_[c].operation = OpHOLD /\ CondTrue(calls, c - 1) =>
      /\ hist.nonzeroSince[c] # -1
      /\ now - hist.nonzeroSince[c] >= engine.conditions_[c].holdMs


\* ------------------------------------------------------------------------
\* OTA specification: the methods of the service called from the loop task in
\* any order with any of the inputs below, interleaved with the steps of the
\* delta worker task
\* ------------------------------------------------------------------------

\* the chunks of a full image and of a patch stream
OtaChunks == { << 1 >>, << 2 >>, << 1, 2 >> }
DeltaChunks == { << 1 >>, << 1, 2 >> }
ChunkLens == { Len(d) : d \in OtaChunks }

\* declared sizes (one that fits the partition, one that does not) and CRCs
DeclaredSize == 2
DeclaredSizes == { DeclaredSize, PartitionSize + 1 }
DeclaredCRCs == { calculateCRC32(<< 1, 2 >>) }

OtaWorld == [ ota |-> ota, rtos |-> rtos, log |-> << >> ]

OtaCommit(o) ==
  /\ ~rtos.halted
  /\ \E v \in { o } :
       /\ ota' = v.ota
       /\ rtos' = v.rtos
       /\ calls' = v.log
       /\ hist' = ObserveSession(hist, ota, v)
  /\ UNCHANGED << engine, ctl, nvs, sent, now, io >>

OtaInit ==
  /\ engine = EngineInit
  /\ ctl = ControllerInit
  /\ nvs = << >>
  /\ sent = << >>
  /\ calls = << >>
  /\ now = 0
  /\ hist = HistInit(EngineInit)
  /\ ota = OTAServiceInit
  /\ rtos = PlatformInit
  /\ io = IoInit

StartFirmwareUpdate(size, crc, beginOk) ==
  OtaCommit(startFirmwareUpdate(OtaWorld, size, crc, beginOk))

WriteFirmwareChunk(data, writeOk) ==
  OtaCommit(writeFirmwareChunk(OtaWorld, data, writeOk))

FinalizeFirmwareUpdate(endOk, bootOk) ==
  OtaCommit(finalizeFirmwareUpdate(OtaWorld, endOk, bootOk))

StartDeltaUpdate(size, crc, beginOk) ==
  OtaCommit(startDeltaUpdate(OtaWorld, size, crc, beginOk))

WriteDeltaChunk(data) == OtaCommit(writeDeltaChunk(OtaWorld, data))

FinalizeDeltaUpdate(created) == OtaCommit(finalizeDeltaUpdate(OtaWorld, created))

OtaLoop == OtaCommit(ESP32OTAService_loop(OtaWorld))

Abort(staleOutcome) == OtaCommit(abort(OtaWorld, staleOutcome))

WorkerStart(allocOk) ==
  /\ rtos.task = "start"
  /\ OtaCommit(WorkerAllocate(OtaWorld, allocOk))

WorkerRead(patchOk) ==
  /\ rtos.task = "patch"
  /\ OtaCommit(WorkerReceive(OtaWorld, patchOk))

WorkerCopy ==
  /\ rtos.task = "copy"
  /\ OtaCommit(WorkerReturnItem(OtaWorld))

WorkerEnd(endOk, bootOk) ==
  /\ rtos.task \in { "patched", "failed" }
  /\ OtaCommit(WorkerFinish(OtaWorld, endOk, bootOk))

WorkerDelete ==
  /\ rtos.task = "exit"
  /\ OtaCommit(WorkerExit(OtaWorld))

OtaNext ==
  \/ \E size \in DeclaredSizes, crc \in DeclaredCRCs, ok \in BOOLEAN :
       StartFirmwareUpdate(size, crc, ok)
  \/ \E data \in OtaChunks, ok \in BOOLEAN : WriteFirmwareChunk(data, ok)
  \/ \E endOk, bootOk \in BOOLEAN : FinalizeFirmwareUpdate(endOk, bootOk)
  \/ \E size \in DeclaredSizes, crc \in DeclaredCRCs, ok \in BOOLEAN :
       StartDeltaUpdate(size, crc, ok)
  \/ \E data \in DeltaChunks : WriteDeltaChunk(data)
  \/ \E created \in BOOLEAN : FinalizeDeltaUpdate(created)
  \/ OtaLoop
  \/ \E outcome \in { "none", "halt" } : Abort(outcome)
  \/ \E ok \in BOOLEAN : WorkerStart(ok)
  \/ \E ok \in BOOLEAN : WorkerRead(ok)
  \/ WorkerCopy
  \/ \E endOk, bootOk \in BOOLEAN : WorkerEnd(endOk, bootOk)
  \/ WorkerDelete

OtaSpec == OtaInit /\ [][OtaNext]_vars

\* ------------------------------------------------------------------------
\* Properties of the OTA service
\* ------------------------------------------------------------------------

ErrorStates == { "ERROR_SPACE", "ERROR_CRC", "ERROR_FLASH" }

\* the trace says method fn returned r
Returned(c, fn, r) == \E i \in DOMAIN c : c[i][1] = fn /\ c[i][2] = r
Invoked(c, fn) == \E i \in DOMAIN c : c[i][1] = fn
StartReturned(c, r) ==
  Returned(c, "startFirmwareUpdate", r) \/ Returned(c, "startDeltaUpdate", r)

SessionFields(s) ==
  << s.status_, s.expectedSize_, s.expectedCRC_, s.sourceCRC_,
     s.receivedBytes_, s.isDelta_ >>

\* C5: startFirmwareUpdate and startDeltaUpdate return true only when the
\* status is IDLE; called in any other status they return false and leave the
\* status, the declared size and CRC, the received byte count and the
\* session kind as they were.
C5_SingleSession ==
  [][ /\ StartReturned(calls', TRUE) => ota.status_ = "IDLE"
      /\ (StartReturned(calls', TRUE) \/ StartReturned(calls', FALSE))
           /\ ota.status_ # "IDLE"
         => StartReturned(calls', FALSE)
            /\ SessionFields(ota') = SessionFields(ota) ]_vars

\* C5 witness: a start was refused while a session with received bytes is open
C5_Witness ==
  /\ StartReturned(calls, FALSE)
  /\ ota.status_ = "RECEIVING"
  /\ ota.receivedBytes_ > 0

\* C6: finalizeFirmwareUpdate on a receiving full session declared with size
\* N and CRC C, flash operations succeeding: it returns true with status
\* SUCCESS exactly when N bytes were accepted and the CRC-32 of those bytes is
\* C; with fewer than N bytes it returns false with status ERROR_SPACE; with
\* N bytes of another CRC it returns false with status ERROR_CRC.
C6_FinalizeOutcome ==
  [][ Invoked(calls', "finalizeFirmwareUpdate")
        /\ ota.status_ = "RECEIVING" /\ ~ota.isDelta_
        /\ ~Invoked(calls', "esp_err")
      => LET accepted == rtos.written
             sizeOk   == Len(accepted) = ota.expectedSize_
             crcOk    == calculateCRC32(accepted) = ota.expectedCRC_
         IN /\ (Returned(calls', "finalizeFirmwareUpdate", TRUE)
                  /\ ota'.status_ = "SUCCESS") <=> (sizeOk /\ crcOk)
            /\ Len(accepted) < ota.expectedSize_
                 => Returned(calls', "finalizeFirmwareUpdate", FALSE)
                    /\ ota'.status_ = "ERROR_SPACE"
            /\ sizeOk /\ ~crcOk
                 => Returned(calls', "finalizeFirmwareUpdate", FALSE)
                    /\ ota'.status_ = "ERROR_CRC" ]_vars

\* C6 witness: a full image of the declared size and CRC has been committed
C6_Witness ==
  /\ Returned(calls, "finalizeFirmwareUpdate", TRUE)
  /\ ota.status_ = "SUCCESS"
  /\ Len(rtos.written) = ota.expectedSize_
  /\ calculateCRC32(rtos.written) = ota.expectedCRC_
  /\ rtos.bootUpdate

\* the trace says writeFirmwareChunk was called with n bytes and returned r
WroteFull(c, r, n) ==
  \E i \in DOMAIN c : c[i][1] = "writeFirmwareChunk" /\ c[i][2] = r /\ c[i][3] = n

\* C7: in a full session the received byte count never exceeds the declared
\* size; a writeFirmwareChunk that would exceed it writes nothing, returns
\* false and sets ERROR_SPACE, and from then on writeFirmwareChunk and
\* finalizeFirmwareUpdate return false.
C7_Overflow ==
  [][ /\ ~ota'.isDelta_ /\ ota'.status_ # "IDLE"
           => ota'.receivedBytes_ <= ota'.expectedSize_
      /\ \A n \in ChunkLens, r \in BOOLEAN :
           WroteFull(calls', r, n)
             /\ ota.status_ = "RECEIVING" /\ ~ota.isDelta_
             /\ ota.receivedBytes_ + n > ota.expectedSize_
           => /\ r = FALSE
              /\ rtos'.written = rtos.written
              /\ ota'.receivedBytes_ = ota.receivedBytes_
              /\ ota'.status_ = "ERROR_SPACE"
      /\ ota.status_ = "ERROR_SPACE" /\ ~ota.isDelta_
           => /\ ~Returned(calls', "writeFirmwareChunk", TRUE)
              /\ ~Returned(calls', "finalizeFirmwareUpdate", TRUE) ]_vars

\* C7 witness: a chunk that would exceed the declared size has been refused
C7_Witness ==
  /\ \E n \in ChunkLens :
       WroteFull(calls, FALSE, n) /\ ota.receivedBytes_ + n > ota.expectedSize_
  /\ ota.receivedBytes_ > 0
  /\ ota.status_ = "ERROR_SPACE" /\ ~ota.isDelta_


\* the statuses assigned during the step, in order
RECURSIVE StatusTrail(_, _)
StatusTrail(c, i) ==
  IF i > Len(c) THEN << >>
  ELSE (IF c[i][1] = "status" THEN << c[i][2] >> ELSE << >>)
       \o StatusTrail(c, i + 1)

\* the edges of the session state machine: from status a to status b, in a
\* step whose trace is c, taken from service state s
EdgeOk(a, b, c, s) ==
  \/ a = b
  \/ b \in ErrorStates
  \/ a = "IDLE" /\ b = "RECEIVING" /\ StartReturned(c, TRUE)
  \/ a = "RECEIVING" /\ b = "VALIDATING"
       /\ Invoked(c, "finalizeFirmwareUpdate") /\ ~s.isDelta_
  \/ a = "RECEIVING" /\ b = "APPLYING"
       /\ Invoked(c, "finalizeDeltaUpdate") /\ s.isDelta_
  \/ a = "VALIDATING" /\ b = "SUCCESS"
       /\ Invoked(c, "finalizeFirmwareUpdate") /\ ~s.isDelta_
  \/ a = "APPLYING" /\ b = "SUCCESS"
       /\ Invoked(c, "loop") /\ s.isDelta_
       /\ s.deltaComplete_ /\ s.deltaResult_ = "SUCCESS"
  \/ b = "IDLE" /\ Invoked(c, "abort")

\* C8: every change of status_ follows an edge of the session state machine:
\* IDLE to RECEIVING only by a successful start; RECEIVING to VALIDATING only
\* in finalizeFirmwareUpdate of a full session, RECEIVING to APPLYING only in
\* finalizeDeltaUpdate of a delta session; SUCCESS only from VALIDATING (full)
\* or from APPLYING when loop() sees the worker's completion (delta); to IDLE
\* only by abort.  A full session is never APPLYING, a delta session never
\* VALIDATING.
C8_StateMachine ==
  [][ LET trail == << ota.status_ >> \o StatusTrail(calls', 1)
      IN /\ trail[Len(trail)] = ota'.status_
         /\ \A k \in 1..(Len(trail) - 1) :
              /\ EdgeOk(trail[k], trail[k + 1], calls', ota)
              /\ trail[k + 1] = "APPLYING" => ota.isDelta_
              /\ trail[k + 1] = "VALIDATING" => ~ota.isDelta_ ]_vars

\* C8 witness: loop() has taken a delta session from APPLYING to SUCCESS
C8_Witness ==
  /\ Returned(calls, "loop", TRUE)
  /\ ota.status_ = "SUCCESS"
  /\ ota.isDelta_
  /\ rtos.bootUpdate

\* C9: whenever the status is an error state, on the full or the delta path,
\* no OTA handle is open on the inactive partition and the ring buffer is
\* empty.
C9_FailureCleanup ==
  ota.status_ \in ErrorStates =>
    /\ ~rtos.handleOpen
    /\ ota.otaHandle_ = 0
    /\ rtos.ring = << >>

\* the trace says abort() was called in a non-IDLE status and has returned
AbortReturned(c) == \E i \in DOMAIN c : c[i][1] = "abort" /\ c[i][2] # "IDLE"

\* C10: when abort() returns after a call in a non-IDLE status, whatever the
\* worker had done by then, the status is IDLE, no worker task exists (so the
\* worker takes no further step), the ring buffer is empty, the OTA handle is
\* released, the received byte count is 0 and deltaComplete_ is false.
C10_Abort ==
  AbortReturned(calls) =>
    /\ ota.status_ = "IDLE"
    /\ rtos.task = "none"
    /\ rtos.ring = << >>
    /\ ~rtos.handleOpen /\ ota.otaHandle_ = 0
    /\ ota.receivedBytes_ = 0
    /\ ~ota.deltaComplete_

\* ------------------------------------------------------------------------
\* Controller specification: an installed ruleset, the OTA commands and
\* streams arriving on the transport, CAN frames arriving at the driver,
\* Controller::loop, and the steps of the delta worker task
\* ------------------------------------------------------------------------

\* OTA:BEGIN / OTA:DELTA for a declared size and CRC
OtaCmd(prefix, size, crc) ==
  prefix \o DecOfInt(size) \o << Colon >> \o HexOfWord(crc)

CtlFrames ==
  { END_MARKER, << 1 >>, << 1, 2 >> }
  \cup { OtaCmd(CMD_OTA_BEGIN, DeclaredSize, crc) : crc \in DeclaredCRCs }
  \cup { OtaCmd(CMD_OTA_DELTA, DeclaredSize, crc) : crc \in DeclaredCRCs }

\* the platform calls a frame can lead to all succeed, or one of them fails
CtlEnvs(frame) ==
  { EnvOk }
  \cup (IF frame = END_MARKER
        THEN { [ EnvOk EXCEPT !.endOk = FALSE ], [ EnvOk EXCEPT !.bootOk = FALSE ],
               [ EnvOk EXCEPT !.created = FALSE ] }
        ELSE IF startsWith(frame, CMD_OTA)
        THEN { [ EnvOk EXCEPT !.beginOk = FALSE ] }
        ELSE { [ EnvOk EXCEPT !.writeOk = FALSE ] })

\* frames on the bus: signal 0 of the ruleset at 0 or 1
CtlCanFrames == { [ id |-> 256, data |-> << b, 0, 0, 0, 0, 0, 0, 0 >> ] : b \in 0..1 }

\* the most frames waiting in the driver between two loop iterations
MaxRxQueue == 1

CtlCommit(w) ==
  /\ ~rtos.halted
  /\ \E v \in { w } :
       /\ engine' = v.engine
       /\ ctl' = v.ctl
       /\ nvs' = v.nvs
       /\ sent' = v.sent
       /\ calls' = v.calls
       /\ ota' = v.ota
       /\ rtos' = v.rtos
       /\ io' = v.io
       /\ hist' = ObserveSession(hist, ota, [ ota |-> v.ota, log |-> v.calls ])
  /\ UNCHANGED now

CtlInit ==
  /\ engine = loadRuleset(registerCapability(EngineInit, CapA), RulesA).eng
  /\ ctl = [ ControllerInit EXCEPT !.rulesMode_ = 1 ]
  /\ nvs = << >>
  /\ sent = << >>
  /\ calls = << >>
  /\ now = 0
  /\ hist = HistInit(engine)
  /\ ota = OTAServiceInit
  /\ rtos = PlatformInit
  /\ io = [ IoInit EXCEPT !.connected = TRUE ]

\* a frame arrives on the transport
CtlReceive(frame, env) ==
  /\ io.connected
  /\ CtlCommit(onReceive([ World EXCEPT !.env = env ], frame))

\* the driver queues a frame received from the bus
CanArrive(frame) ==
  /\ io.running
  /\ Len(io.rxQueue) < MaxRxQueue
  /\ CtlCommit([ World EXCEPT !.io.rxQueue = Append(@, frame) ])

\* Controller::loop (an iteration that may fire a rule is taken while fewer
\* than MaxTriggered firings were counted)
ControllerLoop ==
  /\ needsPause(ota) \/ engine.rulesTriggered_ < MaxTriggered
  /\ CtlCommit(Controller_loop(World, now))

CtlNext ==
  \/ \E frame \in CtlFrames : \E env \in CtlEnvs(frame) : CtlReceive(frame, env)
  \/ \E frame \in CtlCanFrames : CanArrive(frame)
  \/ ControllerLoop
  \/ \E ok \in BOOLEAN : WorkerStart(ok)
  \/ \E ok \in BOOLEAN : WorkerRead(ok)
  \/ WorkerCopy
  \/ \E endOk, bootOk \in BOOLEAN : WorkerEnd(endOk, bootOk)
  \/ WorkerDelete

CtlSpec == CtlInit /\ [][CtlNext]_vars

\* a step of the delta worker task
WorkerStep ==
  \/ \E ok \in BOOLEAN : WorkerStart(ok)
  \/ \E ok \in BOOLEAN : WorkerRead(ok)
  \/ WorkerCopy
  \/ \E endOk, bootOk \in BOOLEAN : WorkerEnd(endOk, bootOk)
  \/ WorkerDelete

\* the frames of a delta session: its command, a patch chunk and END
CtlDeltaFrames ==
  { END_MARKER, << 1 >> }
  \cup { OtaCmd(CMD_OTA_DELTA, DeclaredSize, crc) : crc \in DeclaredCRCs }

\* the runs of a delta session
CtlLiveNext ==
  \/ \E frame \in CtlDeltaFrames : \E env \in CtlEnvs(frame) : CtlReceive(frame, env)
  \/ CanArrive([ id |-> 256, data |-> << 1, 0, 0, 0, 0, 0, 0, 0 >> ])
  \/ ControllerLoop
  \/ WorkerStep

\* the same runs under the scheduler: the worker task (priority above the
\* loop task) runs while it has a step to take, and the loop task keeps
\* iterating Controller::loop
CtlLiveSpec ==
  CtlInit /\ [][CtlLiveNext]_vars /\ WF_vars(WorkerStep) /\ WF_vars(ControllerLoop)

\* ------------------------------------------------------------------------
\* Properties of the Controller
\* ------------------------------------------------------------------------

\* the step just taken was an iteration of Controller::loop
LoopRan(c) == c # << >> /\ c[1][1] = "Controller_loop"
Traced(c, fn) == \E i \in DOMAIN c : c[i][1] = fn

\* C11: in every iteration of Controller::loop that starts while the OTA
\* status is APPLYING or VALIDATING, no CAN frame is ingested into the engine
\* (none leaves the driver, processCanFrame is not called) and no rule is
\* evaluated (evaluateRules is not called; the engine is unchanged).
C11_CanPause ==
  [][ LoopRan(calls') /\ ota.status_ \in { "APPLYING", "VALIDATING" } =>
        /\ engine' = engine
        /\ io'.rxQueue = io.rxQueue
        /\ ~Traced(calls', "processCanFrame")
        /\ ~Traced(calls', "evaluateRules") ]_vars

\* C11 witness: a loop iteration has run paused, the status still APPLYING,
\* with a CAN frame waiting in the driver and a rule ready to fire
C11_Witness ==
  /\ LoopRan(calls) /\ calls[1][2] = TRUE
  /\ ota.status_ = "APPLYING"
  /\ io.rxQueue # << >>
  /\ engine.signals_[1].everSet /\ engine.signals_[1].value > 0

\* a step in which the status leaves APPLYING
LeavesApplying == ota.status_ = "APPLYING" /\ ota'.status_ # "APPLYING"

\* C12: once finalizeDeltaUpdate has moved the status to APPLYING, with the
\* worker and the loop scheduled fairly, the status eventually becomes
\* SUCCESS or ERROR_FLASH; the status leaves APPLYING only by loop() adopting
\* the result the worker wrote for this session, loop() adopts a result once
\* per session, and SUCCESS is adopted only after the worker has marked the
\* inactive partition bootable.
C12_DeltaCompletion ==
  /\ (ota.status_ = "APPLYING") ~> (ota.status_ \in { "SUCCESS", "ERROR_FLASH" })
  /\ [][ /\ LeavesApplying =>
              /\ Logged(calls', "loop", TRUE)
              /\ ota'.status_ \in { "SUCCESS", "ERROR_FLASH" }
              /\ ota'.status_ = hist.session.result
              /\ ota'.status_ = "SUCCESS" => hist.session.bootMarked
         /\ Logged(calls', "loop", TRUE) =>
              LeavesApplying /\ hist'.session.adopted = 1 ]_vars

\* C12 witness: loop() has just adopted SUCCESS from a worker that applied a
\* non-empty patch
C12_Witness ==
  /\ Logged(calls, "loop", TRUE)
  /\ ota.status_ = "SUCCESS" /\ ota.isDelta_
  /\ ota.receivedBytes_ > 0
  /\ hist.session.result = "SUCCESS" /\ hist.session.bootMarked
  /\ hist.session.adopted = 1

\* a completion reply is among the frames sent in this step
CompletionReplies(ota_) ==
  IF ota_.status_ = "SUCCESS" THEN { "OTA:SUCCESS" } ELSE { "OTA:ERROR" }
RepliedCompletion ==
  \E i \in DOMAIN sent : sent[i] \in { "OTA:SUCCESS", "OTA:ERROR" }

\* C13: the END of a delta stream that makes finalizeDeltaUpdate succeed
\* (status RECEIVING to APPLYING) sends no reply, and once loop() has adopted
\* the worker's result a reply OTA:SUCCESS or OTA:ERROR is eventually sent to
\* the transport.
C13_DeltaReply ==
  /\ [][ ota.status_ = "RECEIVING" /\ ota'.status_ = "APPLYING" => sent' = << >> ]_vars
  /\ (Logged(calls, "loop", TRUE) /\ ~rtos.halted) ~> RepliedCompletion

\* ------------------------------------------------------------------------
\* Link specification: a peer that connects, disconnects and sends the
\* ruleset, debug and GET:RULES commands with their streams, against an
\* engine with capability "a" registered
\* ------------------------------------------------------------------------

\* a debug definition CanId:StartBit:BitLen:BE:Factor:Offset
DebugDef(canId, startBit) ==
  DecOfInt(canId) \o << Colon >> \o DecOfInt(startBit) \o << Colon >> \o
  DecOfInt(8) \o << Colon >> \o DecOfInt(0) \o << Colon >> \o
  DecOfInt(1) \o << Colon >> \o DecOfInt(0)

\* two definition texts of the same length
DebugDefsA == DebugDef(256, 0)
DebugDefsB == DebugDef(256, 8)

LinkContainers == { RulesA, RulesB, RulesTimed }

LinkCommands ==
  { CMD_GET_RULES, CMD_DEBUG_START, CMD_DEBUG_STOP, SetRulesCmd(CMD_DEBUG_WATCH, DebugDefsA) }
  \cup { SetRulesCmd(CMD_SET_RULES_RAM, c) : c \in LinkContainers }
  \cup { SetRulesCmd(CMD_SET_RULES_NVS, c) : c \in LinkContainers }

\* what the peer sends into an open stream of a kind that has buffered
\* buffer: END, a definition text, or the first and then the second frame of
\* a container (not always of the same one)
LinkBodies(type, buffer) ==
  { END_MARKER }
  \cup (IF type = "DEBUG_WATCH" THEN { DebugDefsA, DebugDefsB }
        ELSE IF buffer = << >>
        THEN { SubSeq(c, 1, FirstChunkLen) : c \in LinkContainers }
        ELSE { SubSeq(c, FirstChunkLen + 1, Len(c)) : c \in LinkContainers })

LinkFrames ==
  LinkCommands \cup { END_MARKER, DebugDefsA, DebugDefsB }
  \cup UNION { ChunksOf(c) : c \in LinkContainers }

\* the storage write succeeds or fails
LinkEnvs == { EnvOk, [ EnvOk EXCEPT !.blobOk = FALSE ] }

LinkInit ==
  /\ engine = registerCapability(EngineInit, CapA)
  /\ ctl = ControllerInit
  /\ nvs = << >>
  /\ sent = << >>
  /\ calls = << >>
  /\ now = 0
  /\ hist = HistInit(EngineInit)
  /\ ota = OTAServiceInit
  /\ rtos = PlatformInit
  /\ io = IoInit

\* a frame arrives on the transport: a command while no stream is open; a
\* body frame of the announced kind while the announced length is not yet
\* reached, or END, while one is
LinkReceive(frame, env) ==
  /\ io.connected
  /\ IF ctl.streamType_ = "NONE" THEN frame \in LinkCommands
     ELSE /\ frame \in LinkBodies(ctl.streamType_, ctl.streamBuffer_)
          /\ frame # END_MARKER => Len(ctl.streamBuffer_) < ctl.streamExpectedLen_
  /\ env.blobOk \/ (frame = END_MARKER /\ ctl.streamType_ = "RULESET_NVS")
  /\ Commit(Called(onReceive([ World EXCEPT !.env = env ], frame), "onReceive", frame))
  /\ UNCHANGED << now, hist, ota, rtos, io >>

LinkNext ==
  \/ Connect
  \/ Disconnect
  \/ \E frame \in LinkFrames : \E env \in LinkEnvs : LinkReceive(frame, env)

LinkSpec == LinkInit /\ [][LinkNext]_vars

\* ------------------------------------------------------------------------
\* Properties of the link
\* ------------------------------------------------------------------------

BufferedKinds == { "RULESET_RAM", "RULESET_NVS", "DEBUG_WATCH" }

\* the step just taken was END arriving on a buffered stream
EndOfBuffered ==
  ctl.streamType_ \in BufferedKinds /\ Logged(calls', "onReceive", END_MARKER)

\* a verification failure: its one reply, no load call, engine and store kept
Refused(reply) ==
  /\ sent' = << reply >>
  /\ ~Traced(calls', "loadRuleset")
  /\ ~Traced(calls', "loadDebugSignals")
  /\ engine' = engine
  /\ nvs' = nvs

\* C14: at END of a RULESET_RAM, RULESET_NVS or DEBUG_WATCH stream, a buffer
\* whose length differs from the announced length is answered ERR:LEN_MISMATCH
\* (whatever its CRC); a buffer of the announced length whose CRC-32 differs
\* from the announced CRC is answered ERR:CRC_FAIL; in both cases neither
\* loadRuleset nor loadDebugSignals is called and the engine and the store
\* are unchanged.
C14_StreamVerification ==
  [][ EndOfBuffered =>
        /\ Len(ctl.streamBuffer_) # ctl.streamExpectedLen_ => Refused("ERR:LEN_MISMATCH")
        /\ /\ Len(ctl.streamBuffer_) = ctl.streamExpectedLen_
           /\ calculateCRC32(ctl.streamBuffer_) # ctl.streamExpectedCRC_
           => Refused("ERR:CRC_FAIL") ]_vars

\* C14 witness: END has just been refused for its CRC while a ruleset is
\* installed and stored and a debug overlay is loaded
C14_Witness ==
  /\ Logged(calls, "onReceive", END_MARKER)
  /\ ~Traced(calls, "loadRuleset") /\ ~Traced(calls, "loadDebugSignals")
  /\ sent # << >> /\ sent = << "ERR:CRC_FAIL" >>
  /\ engine.rulesetBinary_ = RulesA /\ nvs = RulesA
  /\ engine.debugSignals_ # << >>

RulesetKinds == { "RULESET_RAM", "RULESET_NVS" }

\* the step just taken accepted / rejected the ruleset stream that was open
InstallAccepted ==
  ctl.streamType_ \in RulesetKinds /\ Logged(calls', "loadRuleset", TRUE)
InstallRejected ==
  /\ ctl.streamType_ \in RulesetKinds
  /\ Logged(calls', "onReceive", END_MARKER)
  /\ ~Logged(calls', "loadRuleset", TRUE)

\* the rules-mode tag after an accepted install, and the rejected install
RulesModeSteps ==
  /\ InstallAccepted =>
       /\ ctl.streamType_ = "RULESET_NVS" => ctl'.rulesMode_ = 2
       /\ ctl.streamType_ = "RULESET_RAM" => ctl'.rulesMode_ = 1 /\ nvs' = nvs
  /\ InstallRejected => ctl'.rulesMode_ = ctl.rulesMode_ /\ nvs' = nvs

C16_OneReplyPerRejection ==
  /\ [][ /\ Logged(calls', "startDeltaUpdate", FALSE) => sent' = << "OTA:ERROR" >>
         /\ Logged(calls', "finalizeDeltaUpdate", FALSE) => sent' = << "OTA:ERROR" >> ]_vars
  /\ (Logged(calls, "loop", TRUE) /\ ota.status_ = "ERROR_FLASH")
       ~> (\E i \in DOMAIN sent : sent[i] = "OTA:ERROR")

\* ------------------------------------------------------------------------
\* Disconnect
\* ------------------------------------------------------------------------

\* the debug overlay of the engine
DebugOverlay(eng) ==
  << eng.debugSignals_, eng.debugDirtyFlags_, eng.debugDirtyQueue_, eng.debugQueueHead_ >>

\* C17: a transport disconnect, whatever the state it arrives in, leaves
\* debug mode off, the debug overlay empty, the stream kind NONE and the
\* stream buffer empty, and changes nothing of the ruleset tables, the
\* retained ruleset bytes, the ruleset CRC and the rules-mode tag.
C17_Disconnect ==
  [][ Logged(calls', "onConnectionChange", FALSE) =>
        /\ ~engine'.debugMode_
        /\ DebugOverlay(engine') = << << >>, << >>, << >>, 0 >>
        /\ ctl'.streamType_ = "NONE"
        /\ ctl'.streamBuffer_ = << >>
        /\ RulesetState(engine') = RulesetState(engine)
        /\ ctl'.rulesMode_ = ctl.rulesMode_ ]_vars
\* C17 witness: the peer has just gone while a ruleset stream with buffered
\* bytes was open, debug mode was on with a loaded overlay, and a ruleset was
\* installed and stored
C17_Witness ==
  /\ calls # << >> /\ calls[1][1] = "onConnectionChange" /\ calls[1][2] = FALSE
  /\ calls[1][3] = "RULESET_RAM" /\ calls[1][4] > 0 /\ calls[1][5] > 0
  /\ ~io.connected
  /\ engine.rulesetBinary_ = RulesA /\ ctl.rulesMode_ = 2 /\ nvs = RulesA

\* ------------------------------------------------------------------------
\* Dispatch specification: a ruleset of three rules over three signals, CAN
\* frames and rule evaluations at one reading of the clock
\* ------------------------------------------------------------------------

\* signal 2 = byte 0 of the frames with id 0x200
SigOther == [ canId |-> 512, startBit |-> 0, bitLength |-> 8, flags |-> 0,
              factor |-> 1, offset |-> 0 ]

CondByte1Positive == [ signalIdx |-> 1, operation |-> OpGT, value1 |-> 0, value2 |-> 0 ]
CondOtherNotFive == [ signalIdx |-> 2, operation |-> OpNE, value1 |-> 5, value2 |-> 0 ]
CondOtherOutside == [ signalIdx |-> 2, operation |-> OpOUTSIDE, value1 |-> 3, value2 |-> 4 ]

\* actions 0 and 2 run capability "a", action 1 runs capability "b"
ActSecondString == [ capStrIdx |-> 2, paramCount |-> 0, paramStartIdx |-> 0 ]

\* rule 0: signal 0 > 0 and signal 1 > 0, actions 0 and 1
RuleBoth == [ conditionMask |-> 3, actionStartIdx |-> 0, actionCount |-> 2,
              debounceDs |-> 0, cooldownDs |-> 0 ]
\* rule 1: signal 2 # 5, actions 1 and 2
RuleNotFive == [ conditionMask |-> 4, actionStartIdx |-> 1, actionCount |-> 2,
                 debounceDs |-> 0, cooldownDs |-> 0 ]
\* rule 2: signal 2 outside [3, 4], action 2
RuleOutside == [ conditionMask |-> 8, actionStartIdx |-> 2, actionCount |-> 1,
                 debounceDs |-> 0, cooldownDs |-> 0 ]

RulesDispatch ==
  MkRules(<< SigByte0, SigByte1, SigOther >>,
          << CondPositive, CondByte1Positive, CondOtherNotFive, CondOtherOutside >>,
          << ActFirstString, ActSecondString, ActFirstString >>, << >>,
          << RuleBoth, RuleNotFive, RuleOutside >>,
          CapA \o << 0 >> \o CapB \o << 0 >>)

\* evaluations are taken while fewer than MaxFirings firings were counted
MaxFirings == 6

DispatchInit ==
  /\ engine = loadRuleset(registerCapability(registerCapability(EngineInit, CapA), CapB),
                          RulesDispatch).eng
  /\ ctl = [ ControllerInit EXCEPT !.rulesMode_ = 1 ]
  /\ nvs = << >>
  /\ sent = << >>
  /\ calls = << >>
  /\ now = 0
  /\ hist = HistInit(engine)
  /\ ota = OTAServiceInit
  /\ rtos = PlatformInit
  /\ io = IoInit

\* Engine::processCanFrame on a received frame
DispatchFrame(frame) ==
  /\ engine' = processCanFrame(engine, frame, now)
  /\ calls' = << << "processCanFrame", frame.id >> >>
  /\ UNCHANGED << ctl, nvs, sent, now, hist, ota, rtos, io >>

\* Engine::evaluateRules
DispatchEvaluate ==
  /\ engine.rulesTriggered_ < MaxFirings
  /\ \E e \in { evaluateRules(engine, now) } :
       /\ engine' = e.eng
       /\ calls' = << << "evaluateRules", Len(e.log) >> >> \o e.log
  /\ UNCHANGED << ctl, nvs, sent, now, hist, ota, rtos, io >>

DispatchNext ==
  \/ \E frame \in EvalFrames : DispatchFrame(frame)
  \/ DispatchEvaluate

DispatchSpec == DispatchInit /\ [][DispatchNext]_vars

\* ------------------------------------------------------------------------
\* Properties of dispatch
\* ------------------------------------------------------------------------

\* the step just taken was a call of Engine::evaluateRules
Evaluated(c) == c # << >> /\ c[1][1] = "evaluateRules"

\* the entries of a trace with a given tag, in the order of the trace
Entries(c, tag) == SelectSeq(c, LAMBDA e : e[1] = tag)

\* the action indices of the slices of the rules that fired, rule after rule
RECURSIVE FiredSlices(_, _, _)
FiredSlices(eng, ruleEntries, i) ==
  IF i > Len(ruleEntries) THEN << >>
  ELSE (IF ruleEntries[i][4]
        THEN [ k \in 1..eng.rules_[i].actionCount |->
                 eng.rules_[i].actionStartIdx + k - 1 ]
        ELSE << >>)
       \o FiredSlices(eng, ruleEntries, i + 1)

\* C18: in the trace of one evaluateRules call the rules are visited in
\* increasing index, once each; the executeAction calls are, in order, the
\* slices [actionStartIdx, actionStartIdx + actionCount) of the rules that
\* fired, rule after rule and each slice in increasing action index, so that
\* every action of a firing rule is dispatched once and none of a rule that
\* did not fire; and the handlers invoked are, in the same order, those the
\* dispatched actions name.
C18_DispatchOrder ==
  Evaluated(calls) =>
    LET ruleEntries == Entries(calls, "rule")
        dispatched  == Entries(calls, "executeAction")
        handlers    == Entries(calls, "handler")
        expected    == FiredSlices(engine, ruleEntries, 1)
    IN /\ Len(ruleEntries) = Len(engine.rules_)
       /\ \A i \in DOMAIN ruleEntries : ruleEntries[i][2] = i - 1
       /\ [ i \in DOMAIN dispatched |-> dispatched[i][2] ] = expected
       /\ [ i \in DOMAIN handlers |-> handlers[i][2] ]
            = [ i \in DOMAIN expected |-> engine.actions_[expected[i] + 1].capabilityId ]

\* C18 witness: an evaluation in which rule 0 did not fire and rules 1 and 2
\* did, dispatching actions 1, 2, 2 in this order, after an evaluation in
\* which rule 0 fired
C18_Witness ==
  /\ Evaluated(calls)
  /\ [ i \in DOMAIN Entries(calls, "executeAction") |->
        Entries(calls, "executeAction")[i][2] ] = << 1, 2, 2 >>
  /\ [ i \in DOMAIN Entries(calls, "handler") |->
        Entries(calls, "handler")[i][2] ] = << CapB, CapA, CapA >>
  /\ engine.rules_[1].lastTriggerMs = 0 /\ engine.rulesTriggered_ > 3

\* what a condition without hold state says of the signal values: its
\* signal has been set and its comparison holds
CondHolds(eng, cond) ==
  LET sig == eng.signals_[cond.signalIdx + 1]
      val == sig.value
  IN /\ sig.everSet
     /\ \/ cond.operation = OpEQ /\ val = cond.value1
        \/ cond.operation = OpNE /\ val # cond.value1
        \/ cond.operation = OpGT /\ val > cond.value1
        \/ cond.operation = OpGE /\ val >= cond.value1
        \/ cond.operation = OpLT /\ val < cond.value1
        \/ cond.operation = OpLE /\ val <= cond.value1
        \/ cond.operation = OpWITHIN /\ val >= cond.value1 /\ val <= cond.value2
        \/ cond.operation = OpOUTSIDE /\ (val < cond.value1 \/ val > cond.value2)

\* where the trace of an evaluation closes rule r (0-based), and where the
\* part of the trace that belongs to rule r starts
RulePos(c, r) == CHOOSE i \in DOMAIN c : c[i][1] = "rule" /\ c[i][2] = r
RuleStart(c, r) == IF r = 0 THEN 1 ELSE RulePos(c, r - 1)

\* evaluateCondition returned ret for condition k (0-based) while rule r was
\* being evaluated
CondReturned(c, r, k, ret) ==
  \E i \in RuleStart(c, r)..RulePos(c, r) :
    c[i][1] = "evaluateCondition" /\ c[i][2] = k /\ c[i][3] = ret

\* C19: a rule fires in an evaluation only if every condition selected by
\* its conditionMask was evaluated in that evaluation of the rule, returned
\* true, never false, and holds of the signal values; and evaluateCondition
\* returns false, whatever the operator (NE and OUTSIDE included), for a
\* condition whose signal received no frame since the ruleset was installed.
C19_Conjunction ==
  Evaluated(calls) =>
    /\ \A r \in DOMAIN engine.rules_ :
         Fired(calls, r - 1) =>
           \A k \in DOMAIN engine.conditions_ :
             BitOf(engine.rules_[r].conditionMask, k - 1) = 1 =>
               /\ CondReturned(calls, r - 1, k - 1, TRUE)
               /\ ~CondReturned(calls, r - 1, k - 1, FALSE)
               /\ CondHolds(engine, engine.conditions_[k])
    /\ \A i \in DOMAIN calls :
         /\ calls[i][1] = "evaluateCondition"
         /\ ~engine.signals_[engine.conditions_[calls[i][2] + 1].signalIdx + 1].everSet
         => calls[i][3] = FALSE

\* C19 witness: an evaluation in which rule 0 fired on its two conditions
\* and the NE and the OUTSIDE condition on signal 2, which no frame has set,
\* both returned false
C19_Witness ==
  /\ Evaluated(calls)
  /\ Fired(calls, 0)
  /\ ~engine.signals_[3].everSet
  /\ CondReturned(calls, 1, 2, FALSE)
  /\ CondReturned(calls, 2, 3, FALSE)

\* ------------------------------------------------------------------------
\* Registered capabilities
\* ------------------------------------------------------------------------

\* C20: in every state reached by registerCapability calls and ruleset
\* installs, every action of the active ruleset names a capability with a
\* registered handler, so that executeAction invokes a handler for each of
\* them.
C20_CapabilitiesRegistered ==
  \A a \in DOMAIN engine.actions_ :
    /\ engine.actions_[a].capabilityId \in engine.handlers_
    /\ executeAction(engine, engine.actions_[a]) # << >>

\* C20 witness: a ruleset naming capability "b" has just been installed over
\* one naming "a", after both capabilities were registered
C20_Witness ==
  /\ Logged(calls, "loadRuleset", TRUE)
  /\ engine.rulesetBinary_ = RulesB /\ nvs = RulesA
  /\ engine.actions_ # << >> /\ engine.actions_[1].capabilityId = CapB
  /\ engine.handlers_ = { CapA, CapB }


\* ------------------------------------------------------------------------
\* Parsing specification: one container, taken from a family of containers
\* that differ from a well-formed one in a single field, is waiting in a
\* verified ruleset stream; END hands it to Protocol::parseRules through
\* Engine::loadRuleset, then frames are decoded and the rules evaluated
\* ------------------------------------------------------------------------

CondWithin(v1, v2) ==
  [ signalIdx |-> 0, operation |-> OpWITHIN, value1 |-> v1, value2 |-> v2 ]
ActWithParam == [ capStrIdx |-> 0, paramCount |-> 1, paramStartIdx |-> 0 ]
ParString(idx) == [ type |-> PtSTRING, value |-> idx ]

\* "a", "s"
ParseStrings == CapA \o << 0, 115, 0 >>

RulesParse(sig, cond, act, par, rule, strtab) ==
  MkRules(<< sig >>, << cond >>, << act >>, << par >>, << rule >>, strtab)

RulesWellFormed ==
  RulesParse(SigSpeed, CondWithin(3, 5), ActWithParam, ParString(2), RuleOne,
             ParseStrings)

\* data with the 16-bit field at 0-based offset off set to v
WithU16(data, off, v) == WithByte(WithByte(data, off, v % 256), off + 1, v \div 256)

\* data with the header CRC recomputed over the bytes after the header
Resealed(data) ==
  SubSeq(data, 1, 20)
  \o calculateCRC32(SubSeq(data, sizeofWBPRulesHeader + 1, Len(data)))
  \o SubSeq(data, sizeofWBPRulesHeader + 1, Len(data))

\* the offset of the one rule of a container of this family
ParseRuleOffset ==
  sizeofWBPRulesHeader + sizeofWBPSignal + sizeofWBPCondition + sizeofWBPAction
  + sizeofWBPActionParam

ParseContainers ==
  { RulesParse([ SigSpeed EXCEPT !.bitLength = n ], CondWithin(3, 5), ActWithParam,
               ParString(2), RuleOne, ParseStrings) : n \in { 0, 1, 8, 64, 65, 255 } }
  \cup { RulesParse(SigSpeed, [ CondWithin(3, 5) EXCEPT !.signalIdx = s ],
                    ActWithParam, ParString(2), RuleOne, ParseStrings)
         : s \in { 0, 1, 255 } }
  \cup { RulesParse(SigSpeed, [ CondWithin(3, 5) EXCEPT !.operation = op ],
                    ActWithParam, ParString(2), RuleOne, ParseStrings)
         : op \in 0..9 }
  \cup { RulesParse(SigSpeed, CondWithin(v[1], v[2]), ActWithParam, ParString(2),
                    RuleOne, ParseStrings)
         : v \in { << 3, 5 >>, << 5, 3 >>, << 4, 4 >>, << 5, 4 >> } }
  \cup { RulesParse(SigSpeed, CondWithin(3, 5),
                    [ capStrIdx |-> k, paramCount |-> n, paramStartIdx |-> s ],
                    ParString(2), RuleOne, ParseStrings)
         : k \in { 0 }, n \in 0..2, s \in 0..1 }
  \cup { RulesParse(SigSpeed, CondWithin(3, 5),
                    [ ActWithParam EXCEPT !.capStrIdx = k ],
                    ParString(2), RuleOne, ParseStrings)
         : k \in { 1, 2, 3, 4, 300 } }
  \cup { RulesParse(SigSpeed, CondWithin(3, 5), ActWithParam,
                    [ type |-> t, value |-> 2 ], RuleOne, ParseStrings)
         : t \in 0..4 }
  \cup { RulesParse(SigSpeed, CondWithin(3, 5), ActWithParam, ParString(k),
                    RuleOne, ParseStrings)
         : k \in { 0, 1, 3, 4, 300 } }
  \cup { RulesParse(SigSpeed, CondWithin(3, 5), ActWithParam, ParString(2),
                    [ RuleOne EXCEPT !.conditionMask = m ], ParseStrings)
         : m \in { 0, 2, 3, 128 } }
  \cup { RulesParse(SigSpeed, CondWithin(3, 5), ActWithParam, ParString(2),
                    [ RuleOne EXCEPT !.actionStartIdx = s, !.actionCount = n ],
                    ParseStrings)
         : s \in 0..1, n \in 0..2 }
  \cup { Resealed(WithU16(RulesWellFormed, ParseRuleOffset, k))
         : k \in { 2, 3, 4, 300 } }
  \* three signals on two CAN ids, two conditions
  \cup { MkRules(<< SigSpeed, SigOther, SigSpeed >>,
                 << CondWithin(3, 5), [ CondWithin(3, 5) EXCEPT !.signalIdx = s ] >>,
                 << ActWithParam >>, << ParString(2) >>,
                 << [ RuleOne EXCEPT !.conditionMask = m ] >>, ParseStrings)
         : s \in { 2, 3 }, m \in { 3, 4 } }
  \* the last string of the table without its NUL
  \cup { RulesParse(SigSpeed, CondWithin(3, 5), ActWithParam, ParString(2), RuleOne,
                    CapA \o << 0, 115 >>) }
  \* total_size beyond the buffer, below the header size, short of the body
  \cup { WithU16(RulesWellFormed, 6, n)
         : n \in { Len(RulesWellFormed) + 1, sizeofWBPRulesHeader - 1,
                   Len(RulesWellFormed) - 1 } }
  \* a header crc32 that is not the CRC of the body; another magic or version
  \cup { WithByte(RulesWellFormed, 20, (RulesWellFormed[21] + 1) % 256),
         WithByte(RulesWellFormed, 0, 3), WithByte(RulesWellFormed, 4, 1) }

ParseFrames ==
  { [ id |-> 256, data |-> << b, 0, 0, 0, 0, 0, 0, 0 >> ] : b \in { 2, 4 } }

ParseInit ==
  /\ \E c \in ParseContainers :
       ctl = [ ControllerInit EXCEPT !.streamType_ = "RULESET_RAM",
                                     !.streamBuffer_ = c,
                                     !.streamExpectedLen_ = Len(c),
                                     !.streamExpectedCRC_ = calculateCRC32(c) ]
  /\ engine = registerCapability(EngineInit, CapA)
  /\ nvs = << >>
  /\ sent = << >>
  /\ calls = << >>
  /\ now = 0
  /\ hist = HistInit(EngineInit)
  /\ ota = OTAServiceInit
  /\ rtos = PlatformInit
  /\ io = [ IoInit EXCEPT !.connected = TRUE ]

\* the END frame of the stream arrives
ParseInstall ==
  /\ ctl.streamType_ # "NONE"
  /\ Commit(onReceive(World, END_MARKER))
  /\ UNCHANGED << now, hist, ota, rtos, io >>

ParseNext ==
  \/ ParseInstall
  \/ \E frame \in ParseFrames : DispatchFrame(frame)
  \/ DispatchEvaluate

ParseSpec == ParseInit /\ [][ParseNext]_vars

\* ------------------------------------------------------------------------
\* Properties of parsing
\* ------------------------------------------------------------------------

\* the string-table offset names a NUL-terminated string inside the table
\* data[tblOff .. totalSize)
StringInTable(data, tblOff, totalSize, idx) ==
  /\ tblOff + idx < totalSize
  /\ \E e \in (tblOff + idx)..(totalSize - 1) : data[e + 1] = 0

\* the structural invariants of a rules container, read from its bytes
WellFormed(data) ==
  /\ Len(data) >= sizeofWBPRulesHeader
  /\ U16(data, 6) >= sizeofWBPRulesHeader
  /\ U16(data, 6) <= Len(data)
  /\ calculateCRC32(SubSeq(data, sizeofWBPRulesHeader + 1, U16(data, 6)))
       = U32W(data, 20)
  /\ LET signalCount == U8(data, 8)
         conditionCount == U8(data, 9)
         actionCount == U8(data, 10)
         ruleCount == U8(data, 11)
         paramCount == U16(data, 12)
         tblOff == U16(data, 16)
         totalSize == U16(data, 6)
         sigOff == sizeofWBPRulesHeader
         condOff == sigOff + signalCount * sizeofWBPSignal
         actOff == condOff + conditionCount * sizeofWBPCondition
         parOff == actOff + actionCount * sizeofWBPAction
         ruleOff == parOff + paramCount * sizeofWBPActionParam
     IN /\ \A i \in 0..(signalCount - 1) :
             U8(data, sigOff + i * sizeofWBPSignal + 6) \in 1..64
        /\ \A i \in 0..(conditionCount - 1) :
             U8(data, condOff + i * sizeofWBPCondition) < signalCount
        /\ \A i \in 0..(actionCount - 1) :
             LET o == actOff + i * sizeofWBPAction
             IN /\ U8(data, o + 3) + U8(data, o + 2) <= paramCount
                /\ StringInTable(data, tblOff, totalSize, U16(data, o))
        /\ \A i \in 0..(paramCount - 1) :
             LET o == parOff + i * sizeofWBPActionParam
             IN U8(data, o) = PtSTRING
                  => StringInTable(data, tblOff, totalSize, U16(data, o + 2))
        /\ \A i \in 0..(ruleCount - 1) :
             LET o == ruleOff + i * sizeofWBPRule
             IN /\ \A c \in 0..30 :
                     BitOf(U32(data, o + 2), c) = 1 => c < conditionCount
                /\ U8(data, o + 6) + U8(data, o + 7) <= actionCount
                /\ StringInTable(data, tblOff, totalSize, U16(data, o))

\* C21: the container the engine accepted (parseRules returned true for it)
\* satisfies every structural invariant: signal bit lengths in 1..64,
\* condition signal indices, rule masks, action and parameter ranges inside
\* their tables, every string index (capability, STRING parameter, flow id)
\* at a NUL-terminated string of the table, total_size and CRC-32 right
C21_BoundsSafety ==
  engine.rulesetBinary_ # << >> => WellFormed(engine.rulesetBinary_)

\* C25: every WITHIN condition of the installed ruleset has value1 <= value2
C25_RangeNormalised ==
  \A c \in DOMAIN engine.conditions_ :
    engine.conditions_[c].operation = OpWITHIN
      => engine.conditions_[c].value1 <= engine.conditions_[c].value2

\* ------------------------------------------------------------------------
\* Decoding specification: a ruleset with one signal, whose start bit, bit
\* length, byte order and signedness are drawn from bounded sets, is
\* installed; frames with the signal's CAN id are decoded
\* ------------------------------------------------------------------------

DecodeStartBits == { 0, 3, 7, 60, 2048, 65535 }
DecodeBitLengths == { 1, 8, 16, 26, 31, 64 }

SigDecode(start, len, bigEndian, signed) ==
  [ canId |-> 256, startBit |-> start, bitLength |-> len,
    flags |-> (IF bigEndian THEN 1 ELSE 0) + (IF signed THEN 2 ELSE 0),
    factor |-> 1, offset |-> 0 ]

DecodeContainers ==
  { MkRules(<< SigDecode(start, len, be, sg) >>, << CondPositive >>,
            << ActFirstString >>, << >>, << RuleOne >>, CapA \o << 0 >>)
    : start \in DecodeStartBits, len \in DecodeBitLengths,
      be \in BOOLEAN, sg \in BOOLEAN }

DecodeFrames ==
  { [ id |-> 256, data |-> d ]
    : d \in { << 90, 18, 0, 0, 0, 0, 0, 0 >>,
              << 52, 18, 0, 0, 0, 0, 0, 0 >>,
              << 255, 255, 255, 255, 255, 255, 255, 255 >>,
              << 1, 0, 0, 1, 0, 0, 0, 128 >>,
              << 1, 0, 0, 2, 0, 0, 0, 0 >> } }

DecodeInit ==
  /\ \E c \in DecodeContainers :
       engine = loadRuleset(registerCapability(EngineInit, CapA), c).eng
  /\ ctl = [ ControllerInit EXCEPT !.rulesMode_ = 1 ]
  /\ nvs = << >>
  /\ sent = << >>
  /\ calls = << >>
  /\ now = 0
  /\ hist = HistInit(EngineInit)
  /\ ota = OTAServiceInit
  /\ rtos = PlatformInit
  /\ io = IoInit

\* Engine::processCanFrame on a received frame (the trace keeps the payload)
DecodeFrame(frame) ==
  /\ engine' = processCanFrame(engine, frame, now)
  /\ calls' = << << "processCanFrame", frame.id, frame.data >> >>
  /\ UNCHANGED << ctl, nvs, sent, now, hist, ota, rtos, io >>

DecodeNext == \E frame \in DecodeFrames : DecodeFrame(frame)

DecodeSpec == DecodeInit /\ [][DecodeNext]_vars

\* ------------------------------------------------------------------------
\* Properties of decoding
\* ------------------------------------------------------------------------

\* the last step decoded a frame
Decoded == calls # << >> /\ calls[1][1] = "processCanFrame"

\* the field as specified, least significant bit first: little-endian bit i
\* is bit (start + i) mod 8 of byte (start + i) / 8, zero where that byte is
\* not in the payload; big-endian bit (len - 1 - i) is the bit at position
\* start - i, zero where that position is not in the payload
ReferenceField(data, start, len, bigEndian) ==
  [ k \in 1..64 |->
    IF k > len THEN 0
    ELSE LET pos == IF bigEndian THEN start - (len - k) ELSE start + (k - 1)
         IN IF pos < 0 \/ pos \div 8 >= 8 THEN 0
            ELSE ByteBit(data[(pos \div 8) + 1], pos % 8) ]

\* the raw field of the one signal in the payload decoded last
RawField ==
  extractBits(calls[1][3], engine.signals_[1].startBit,
              engine.signals_[1].bitLength, engine.signals_[1].bigEndian)

\* C23: the field extractBits computes from a decoded payload is the
\* reference field, for both byte orders
C23_ExtractBits ==
  Decoded =>
    RawField = ReferenceField(calls[1][3], engine.signals_[1].startBit,
                              engine.signals_[1].bitLength,
                              engine.signals_[1].bigEndian)

Abs(v) == IF v < 0 THEN 0 - v ELSE v

\* the two's-complement value of the low n bits of a field, n <= 31
TwosComplement(bits, n) == LowValue(bits, n - 1) - bits[n] * Pow2(n - 1)

\* the one signal is signed and a payload was decoded for it
SignedDecoded == Decoded /\ engine.signals_[1].isSigned

\* the decoded value has the sign that the top bit of the field tells
SignOfTopBit ==
  IF RawField[engine.signals_[1].bitLength] = 1
  THEN engine.signals_[1].value < 0
  ELSE engine.signals_[1].value >= 0

\* the spacing of binary32 values at the magnitude of v
UlpAt(v) == IF Abs(v) < Pow2(24) THEN 1 ELSE Pow2(Log2Floor(Abs(v)) - 23)

\* C24 as stated: the decoded value of a signed signal has the sign of the
\* field's top bit and is the two's-complement value of the field (fields of
\* at most 31 bits, whose value the integers of this module hold)
C24_TwosComplement ==
  SignedDecoded =>
    /\ SignOfTopBit
    /\ engine.signals_[1].bitLength <= 31
         => engine.signals_[1].value
              = TwosComplement(RawField, engine.signals_[1].bitLength)

\* C24: the decoded value of a signed signal is negative when the top bit of
\* the field is set and non-negative when it is clear, for every bit length
\* in 1..64; it is the two's-complement value of the field converted to
\* binary32: that value itself when its magnitude is at most 2^24, and
\* otherwise a multiple of the binary32 spacing at most half a spacing away
C24_SignExtension ==
  SignedDecoded =>
    /\ SignOfTopBit
    /\ engine.signals_[1].bitLength <= 31
         => LET tc == TwosComplement(RawField, engine.signals_[1].bitLength)
                v  == engine.signals_[1].value
            IN /\ Abs(tc) <= Pow2(24) => v = tc
               /\ v % UlpAt(tc) = 0
               /\ 2 * Abs(v - tc) <= UlpAt(tc)

\* a signed 26-bit field with its top bit set was decoded to a negative value
\* that is not the field's two's-complement value
C24_Witness ==
  /\ SignedDecoded
  /\ engine.signals_[1].bitLength = 26
  /\ RawField[26] = 1
  /\ engine.signals_[1].value < 0
  /\ engine.signals_[1].value # TwosComplement(RawField, 26)

\* ------------------------------------------------------------------------
\* Read-back specification: ruleset streams of a short ruleset, of one
\* longer than the MTU and of a container the parser rejects, announced
\* rightly or wrongly, and GET:RULES between them.  Here hist.accepted is the
\* buffer of the last ruleset stream that Engine::loadRuleset accepted.
\* ------------------------------------------------------------------------

ReadbackContainers == { RulesA, RulesBadIndex, RulesDispatch }

RECURSIVE Elements(_)
Elements(seq) == IF seq = << >> THEN { } ELSE { Head(seq) } \cup Elements(Tail(seq))

ReadbackCommands ==
  { CMD_GET_RULES }
  \cup { SetRulesCmd(CMD_SET_RULES_RAM, c) : c \in ReadbackContainers }
  \cup { SetRulesCmd(CMD_SET_RULES_NVS, c) : c \in ReadbackContainers }

ReadbackBodies ==
  { END_MARKER } \cup UNION { Elements(ChunkFrames(c, Mtu)) : c \in ReadbackContainers }

ReadbackInit ==
  /\ engine = registerCapability(registerCapability(EngineInit, CapA), CapB)
  /\ ctl = ControllerInit
  /\ nvs = << >>
  /\ sent = << >>
  /\ calls = << >>
  /\ now = 0
  /\ hist = [ accepted |-> << >> ]
  /\ ota = OTAServiceInit
  /\ rtos = PlatformInit
  /\ io = IoInit

\* a peer connects to the transport
ReadbackConnect ==
  /\ ~io.connected
  /\ Commit(Called(onConnectionChange(World, TRUE), "onConnectionChange", TRUE))
  /\ io' = [ io EXCEPT !.connected = TRUE ]
  /\ UNCHANGED << now, hist, ota, rtos >>

\* a frame arrives on the transport: a command while no stream is open, a
\* body frame that does not exceed the announced length, or END, while one is
ReadbackReceive(frame) ==
  /\ io.connected
  /\ IF ctl.streamType_ = "NONE" THEN frame \in ReadbackCommands
     ELSE /\ frame \in ReadbackBodies
          /\ frame # END_MARKER
               => Len(ctl.streamBuffer_) + Len(frame) <= ctl.streamExpectedLen_
  /\ Commit(Called(onReceive(World, frame), "onReceive", frame))
  /\ hist' = IF ctl.streamType_ \in RulesetKinds /\ Logged(calls', "loadRuleset", TRUE)
             THEN [ accepted |-> ctl.streamBuffer_ ]
             ELSE hist
  /\ UNCHANGED << now, ota, rtos, io >>

ReadbackNext ==
  \/ ReadbackConnect
  \/ \E frame \in ReadbackCommands \cup ReadbackBodies : ReadbackReceive(frame)

ReadbackSpec == ReadbackInit /\ [][ReadbackNext]_vars

\* ------------------------------------------------------------------------
\* Properties of read-back
\* ------------------------------------------------------------------------

\* frames is BEGIN, chunks of at most Mtu bytes that together are bytes, and
\* END with the length and the CRC-32 of bytes
IsReadBack(frames, bytes) ==
  /\ Len(frames) >= 3
  /\ frames[1] = "BEGIN"
  /\ \A i \in 2..(Len(frames) - 1) : Len(frames[i]) >= 1 /\ Len(frames[i]) <= Mtu
  /\ Flatten(SubSeq(frames, 2, Len(frames) - 1)) = bytes
  /\ frames[Len(frames)]
       = << "END:", DecOfInt(Len(bytes)), DecOfWord(calculateCRC32(bytes)) >>

\* C22: the reply to GET:RULES is ERR:NO_RULES exactly when no ruleset
\* stream was ever accepted; otherwise it is BEGIN, chunks of at most MTU
\* bytes whose concatenation is the most recently accepted ruleset, and
\* END:<len>:<crc32> of those bytes
C22_ReadBack ==
  Logged(calls, "onReceive", CMD_GET_RULES) =>
    IF hist.accepted = << >> THEN sent = << "ERR:NO_RULES" >>
    ELSE IsReadBack(sent, hist.accepted)

\* GET:RULES was answered with the ruleset that is longer than the MTU, in
\* two chunks, while the storage holds another ruleset: the longer one was
\* accepted after it
C22_Witness ==
  /\ Logged(calls, "onReceive", CMD_GET_RULES)
  /\ hist.accepted = RulesDispatch
  /\ Len(sent) = 4
  /\ nvs = RulesA

\* ------------------------------------------------------------------------
\* Dirty-queue specification: the four engine operations on the debug
\* overlay in any order, on an overlay of one signal (which fills the queue
\* to its capacity) and on an overlay of two signals of one CAN id
\* ------------------------------------------------------------------------

OverlayOne == DebugDefsA
OverlayTwo == DebugDefsA \o << Comma >> \o DebugDefsB

QueueFrames ==
  { [ id |-> 256, data |-> << b0, b1, 0, 0, 0, 0, 0, 0 >> ] : b0, b1 \in 0..1 }

\* with the overlay of two signals, frames are taken while the queue holds
\* fewer than MaxQueuedPair entries
MaxQueuedPair == 3

QueueInit ==
  /\ engine = EngineInit
  /\ ctl = ControllerInit
  /\ nvs = << >>
  /\ sent = << >>
  /\ calls = << >>
  /\ now = 0
  /\ hist = HistInit(EngineInit)
  /\ ota = OTAServiceInit
  /\ rtos = PlatformInit
  /\ io = IoInit

\* Engine::loadDebugSignals
QueueLoad(definitions) ==
  /\ \E d \in { loadDebugSignals(engine, definitions) } :
       /\ engine' = d.eng
       /\ calls' = << << "loadDebugSignals", d.count >> >>
  /\ UNCHANGED << ctl, nvs, sent, now, hist, ota, rtos, io >>

\* Engine::clearDebugSignals
QueueClear ==
  /\ engine' = clearDebugSignals(engine)
  /\ calls' = << << "clearDebugSignals", TRUE >> >>
  /\ UNCHANGED << ctl, nvs, sent, now, hist, ota, rtos, io >>

\* Engine::processCanFrame
QueueFrame(frame) ==
  /\ Len(engine.debugSignals_) > 1 => Len(engine.debugDirtyQueue_) < MaxQueuedPair
  /\ engine' = processCanFrame(engine, frame, now)
  /\ calls' = << << "processCanFrame", frame.id >> >>
  /\ UNCHANGED << ctl, nvs, sent, now, hist, ota, rtos, io >>

\* Engine::popDirtyDebugSignal
QueuePop ==
  /\ \E p \in { popDirtyDebugSignal(engine) } :
       /\ engine' = p.eng
       /\ calls' = << << "popDirtyDebugSignal", p.ok, p.sig >> >>
  /\ UNCHANGED << ctl, nvs, sent, now, hist, ota, rtos, io >>

QueueNext ==
  \/ \E definitions \in { OverlayOne, OverlayTwo } : QueueLoad(definitions)
  \/ QueueClear
  \/ \E frame \in QueueFrames : QueueFrame(frame)
  \/ QueuePop

QueueSpec == QueueInit /\ [][QueueNext]_vars

\* ------------------------------------------------------------------------
\* Properties of the dirty queue
\* ------------------------------------------------------------------------

\* the pending entries: those of the queue from its head on
Pending(eng) ==
  SubSeq(eng.debugDirtyQueue_, eng.debugQueueHead_ + 1, Len(eng.debugDirtyQueue_))

QueueConsistent ==
  LET pending == Pending(engine) IN
  /\ Len(pending) <= 64
  /\ \A i, j \in DOMAIN pending : pending[i] = pending[j] => i = j
  /\ \A idx \in DOMAIN engine.debugDirtyFlags_ :
       engine.debugDirtyFlags_[idx] <=> \E i \in DOMAIN pending : pending[i] = idx - 1
  /\ \A i \in DOMAIN pending : pending[i] < Len(engine.debugSignals_)

\* a popDirtyDebugSignal call returns nothing when nothing is pending, and
\* else takes the first pending index alone, returns that overlay signal and
\* sets its last reported value to its value
PopTakesFirst ==
  calls'[1][1] = "popDirtyDebugSignal" =>
    IF Pending(engine) = << >>
    THEN calls'[1][2] = FALSE /\ Pending(engine') = << >>
    ELSE LET idx == Head(Pending(engine)) IN
         /\ calls'[1][2] = TRUE
         /\ calls'[1][3] = engine.debugSignals_[idx + 1]
         /\ Pending(engine') = Tail(Pending(engine))
         /\ engine'.debugSignals_[idx + 1].lastDebugValue10
              = engine.debugSignals_[idx + 1].value * 10

\* a processCanFrame call enqueues behind what is pending
FrameEnqueuesLast ==
  calls'[1][1] = "processCanFrame" =>
    /\ Len(Pending(engine')) >= Len(Pending(engine))
    /\ SubSeq(Pending(engine'), 1, Len(Pending(engine))) = Pending(engine)

\* C26: at most 64 entries are pending, no index is pending twice, a dirty
\* flag is set exactly when its index is pending, every pending index is
\* below the overlay size, and popDirtyDebugSignal returns the pending
\* indices in enqueue order, one per call, setting the last reported value
\* of the signal to its current value
C26_DirtyQueue == []QueueConsistent /\ [][PopTakesFirst /\ FrameEnqueuesLast]_vars

\* overlay index 1 was enqueued before index 0 and has just been popped;
\* index 0 is still pending
C26_Witness ==
  /\ Logged(calls, "popDirtyDebugSignal", TRUE)
  /\ calls[1][3].startBit = 8
  /\ Pending(engine) = << 0 >>
  /\ engine.debugDirtyFlags_ = << TRUE, FALSE >>

\* ------------------------------------------------------------------------
\* Pacing specification: the Controller loop with a debug overlay of one
\* signal installed, CAN frames, DEBUG:START and DEBUG:STOP, and a clock
\* that advances in steps shorter than the debug rate limit.  Here hist
\* holds the times of the last two D:S frames (-1: none yet).
\* ------------------------------------------------------------------------

PaceTickMs == 5
MaxPaceMs == 30

PaceCommands == { CMD_DEBUG_START, CMD_DEBUG_STOP }

PaceInit ==
  /\ engine = loadDebugSignals(EngineInit, OverlayOne).eng
  /\ ctl = ControllerInit
  /\ nvs = << >>
  /\ sent = << >>
  /\ calls = << >>
  /\ now = 0
  /\ hist = [ lastDs |-> -1, prevDs |-> -1 ]
  /\ ota = OTAServiceInit
  /\ rtos = PlatformInit
  /\ io = [ IoInit EXCEPT !.connected = TRUE ]

\* millis() advances
PaceTick ==
  /\ now < MaxPaceMs
  /\ now' = now + PaceTickMs
  /\ sent' = << >>
  /\ calls' = << >>
  /\ UNCHANGED << engine, ctl, nvs, hist, ota, rtos, io >>

\* the driver queues a frame received from the bus
PaceCan(frame) ==
  /\ io.running
  /\ Len(io.rxQueue) < MaxRxQueue
  /\ io' = [ io EXCEPT !.rxQueue = Append(@, frame) ]
  /\ sent' = << >>
  /\ calls' = << >>
  /\ UNCHANGED << engine, ctl, nvs, now, hist, ota, rtos >>

\* a command arrives on the transport
PaceReceive(frame) ==
  /\ io.connected
  /\ Commit(Called(onReceive(World, frame), "onReceive", frame))
  /\ UNCHANGED << now, hist, ota, rtos, io >>

\* Controller::loop
PaceLoop ==
  /\ \E v \in { Controller_loop(World, now) } :
       /\ engine' = v.engine
       /\ ctl' = v.ctl
       /\ nvs' = v.nvs
       /\ sent' = v.sent
       /\ calls' = v.calls
       /\ ota' = v.ota
       /\ rtos' = v.rtos
       /\ io' = v.io
       /\ hist' = IF Logged(v.calls, "sendDebugUpdates", "sent")
                  THEN [ lastDs |-> now, prevDs |-> hist.lastDs ]
                  ELSE hist
  /\ UNCHANGED now

PaceNext ==
  \/ PaceTick
  \/ \E frame \in CtlCanFrames : PaceCan(frame)
  \/ \E frame \in PaceCommands : PaceReceive(frame)
  \/ PaceLoop

PaceSpec == PaceInit /\ [][PaceNext]_vars

\* ------------------------------------------------------------------------
\* Properties of debug pacing
\* ------------------------------------------------------------------------

\* two consecutive D:S frames are at least 10 ms apart
PacedApart == hist.prevDs >= 0 => hist.lastDs - hist.prevDs >= 10

\* the step is an iteration of Controller::loop
LoopStep == calls' # << >> /\ calls'[1][1] = "Controller_loop"

\* the time since the last D:S frame (since the start when there was none)
SinceLastDs == IF hist.lastDs < 0 THEN now ELSE now - hist.lastDs

PacedStep ==
  /\ LoopStep =>
       /\ Len(sent') <= 1
       /\ \A i \in DOMAIN sent' : sent'[i][1] = "D:S:" /\ engine.debugMode_
       \* nothing waits in the driver and nothing is pending: no frame is sent
       /\ io.rxQueue = << >> /\ Pending(engine) = << >> => sent' = << >>
       \* an iteration that sends nothing leaves the time of the last frame
       /\ sent' = << >> => ctl'.lastDebugTxMs_ = ctl.lastDebugTxMs_
       \* and so a pending entry is sent as soon as 10 ms have passed since
       \* the last D:S frame, whatever iterations ran in between
       /\ engine.debugMode_ /\ Pending(engine) # << >> /\ SinceLastDs >= 10
            => Len(sent') = 1
  /\ ~LoopStep => ~Logged(calls', "sendDebugUpdates", "sent")

\* C27: D:S frames are sent only by loop iterations that find debug mode
\* active, at most one per iteration, and two consecutive ones are at least
\* 10 ms apart; an iteration that finds the dirty queue empty sends none and
\* does not delay the next frame
C27_DebugPacing == []PacedApart /\ [][PacedStep]_vars

\* a D:S frame has just been sent two clock steps after the one before it
C27_Witness ==
  /\ Logged(calls, "sendDebugUpdates", "sent")
  /\ hist.prevDs >= 0
  /\ hist.lastDs = hist.prevDs + 2 * PaceTickMs

\* ------------------------------------------------------------------------
\* Overlay specification: DEBUG:WATCH streams and ruleset streams, each
\* announced rightly or wrongly, between iterations of the Controller loop
\* that decode CAN frames, fire the rule and report an overlay change
\* ------------------------------------------------------------------------

\* the reading of millis() at which the iterations of the loop run
OverlayClockMs == 10
MaxOverlayFirings == 1

OverlayTexts == { DebugDefsA, DebugDefsB }
OverlayContainers == { RulesA, RulesTimed }

OverlayCommands ==
  { SetRulesCmd(CMD_DEBUG_WATCH, DebugDefsA), SetRulesCmd(CMD_SET_RULES_RAM, RulesA) }

\* what the peer sends into an open stream: END, or one body frame
OverlayBodies(type) ==
  { END_MARKER }
  \cup (IF type = "DEBUG_WATCH" THEN OverlayTexts ELSE OverlayContainers)

OverlayInit ==
  /\ engine = registerCapability(EngineInit, CapA)
  /\ ctl = ControllerInit
  /\ nvs = << >>
  /\ sent = << >>
  /\ calls = << >>
  /\ now = OverlayClockMs
  /\ hist = [ lastDs |-> -1, prevDs |-> -1 ]
  /\ ota = OTAServiceInit
  /\ rtos = PlatformInit
  /\ io = [ IoInit EXCEPT !.connected = TRUE ]

\* a frame arrives on the transport: a command while no stream is open, one
\* body frame or END while one is
OverlayReceive(frame) ==
  /\ io.connected
  /\ IF ctl.streamType_ = "NONE" THEN frame \in OverlayCommands
     ELSE /\ frame \in OverlayBodies(ctl.streamType_)
          /\ frame # END_MARKER => ctl.streamBuffer_ = << >>
  /\ Commit(Called(onReceive(World, frame), "onReceive", frame))
  /\ UNCHANGED << now, hist, ota, rtos, io >>

\* Controller::loop (an iteration is taken while fewer than
\* MaxOverlayFirings firings were counted)
OverlayLoop ==
  /\ engine.rulesTriggered_ < MaxOverlayFirings
  /\ PaceLoop

OverlayNext ==
  \/ \E frame \in CtlCanFrames : PaceCan(frame)
  \/ \E frame \in OverlayCommands \cup OverlayTexts \cup OverlayContainers
                  \cup { END_MARKER } : OverlayReceive(frame)
  \/ OverlayLoop

OverlaySpec == OverlayInit /\ [][OverlayNext]_vars

\* ------------------------------------------------------------------------
\* Properties of the overlay
\* ------------------------------------------------------------------------

\* the ruleset tables with their runtime state, and the rest of the engine
\* that belongs to the ruleset
RulesetPart(eng) ==
  << eng.signals_, eng.conditions_, eng.actions_, eng.rules_, eng.signalMap_,
     eng.rulesetBinary_, eng.rulesetCRC_, eng.rulesTriggered_,
     eng.unknownCapability_, eng.handlers_ >>

\* the overlay table (with the last reported values) and the dirty queue
OverlayPart(eng) ==
  << eng.debugSignals_, eng.debugDirtyFlags_, eng.debugDirtyQueue_,
     eng.debugQueueHead_ >>

\* the step finalized the open stream
Finalized == Logged(calls', "onReceive", END_MARKER) /\ ctl.streamType_ # "NONE"

WatchInstalled == Finalized /\ Traced(calls', "loadDebugSignals")

OverlaySteps ==
  /\ WatchInstalled =>
       /\ engine'.debugSignals_
            = loadDebugSignals(EngineInit, ctl.streamBuffer_).eng.debugSignals_
       /\ engine'.debugDirtyQueue_ = << >>
       /\ engine'.debugQueueHead_ = 0
       /\ \A i \in DOMAIN engine'.debugDirtyFlags_ : ~engine'.debugDirtyFlags_[i]
       /\ RulesetPart(engine') = RulesetPart(engine)
  /\ Finalized /\ ~WatchInstalled => OverlayPart(engine') = OverlayPart(engine)

\* C28: a DEBUG:WATCH install replaces the whole overlay table and resets the
\* dirty queue, leaving the ruleset tables and the runtime state of signals,
\* conditions and rules as they were; a ruleset install and a stream rejected
\* for its length or CRC leave the overlay table, the dirty queue and the
\* last reported values as they were
C28_OverlayIndependence == [][OverlaySteps]_vars

\* a DEBUG:WATCH install has just replaced the overlay of an engine whose
\* ruleset signal has been decoded and whose rule has fired
C28_Witness ==
  /\ Traced(calls, "loadDebugSignals")
  /\ engine.signals_ # << >>
  /\ engine.signals_[1].everSet
  /\ engine.rulesTriggered_ > 0
  /\ engine.rules_[1].lastConditionState

\* ------------------------------------------------------------------------
\* Framing specification: a connected peer sends any of its frames at any
\* time, whether a stream is open or not: commands, body frames, END, and a
\* frame that begins with END followed by a NUL byte; the peer may leave and
\* come back
\* ------------------------------------------------------------------------

\* the most bytes the stream buffer holds after a frame was appended to
\* bytes already there
MaxFramingBytes == 4

\* "END", a NUL, and one more byte
EndThenNul == END_MARKER \o << 0, 1 >>

FramingCommands ==
  { SetRulesCmd(CMD_SET_RULES_RAM, RulesA), SetRulesCmd(CMD_SET_RULES_NVS, RulesA),
    SetRulesCmd(CMD_DEBUG_WATCH, DebugDefsA) }
  \cup { OtaCmd(CMD_OTA_BEGIN, DeclaredSize, crc) : crc \in DeclaredCRCs }
  \cup { OtaCmd(CMD_OTA_DELTA, DeclaredSize, crc) : crc \in DeclaredCRCs }

FramingBodies == { << 1, 2 >>, RulesA, DebugDefsA, EndThenNul }

FramingFrames == FramingCommands \cup FramingBodies \cup { END_MARKER }

\* the platform calls of a finalization succeed, or esp_ota_end fails
FramingEnvs(frame) ==
  IF frame = END_MARKER THEN { EnvOk, [ EnvOk EXCEPT !.endOk = FALSE ] }
  ELSE { EnvOk }

FramingInit ==
  /\ engine = registerCapability(EngineInit, CapA)
  /\ ctl = ControllerInit
  /\ nvs = << >>
  /\ sent = << >>
  /\ calls = << >>
  /\ now = 0
  /\ hist = << >>
  /\ ota = OTAServiceInit
  /\ rtos = PlatformInit
  /\ io = [ IoInit EXCEPT !.connected = TRUE ]

\* a frame arrives on the transport (a frame that would be appended to bytes
\* already buffered arrives while the sum stays within MaxFramingBytes)
FramingReceive(frame, env) ==
  /\ io.connected
  /\ ~rtos.halted
  /\ (ctl.streamType_ \in BufferedKinds /\ ctl.streamBuffer_ # << >>
        /\ ~StringEquals(frame, END_MARKER))
       => Len(ctl.streamBuffer_) + Len(frame) <= MaxFramingBytes
  /\ \E v \in { Called(onReceive([ World EXCEPT !.env = env ], frame),
                       "onReceive", frame) } :
       /\ engine' = v.engine
       /\ ctl' = v.ctl
       /\ nvs' = v.nvs
       /\ sent' = v.sent
       /\ calls' = v.calls
       /\ ota' = v.ota
       /\ rtos' = v.rtos
       /\ io' = v.io
  /\ UNCHANGED << now, hist >>

\* the peer leaves
FramingDisconnect ==
  /\ ~rtos.halted
  /\ Disconnect

\* a peer connects
FramingConnect ==
  /\ ~rtos.halted
  /\ Connect

FramingNext ==
  \/ \E frame \in FramingFrames : \E env \in FramingEnvs(frame) : FramingReceive(frame, env)
  \/ FramingDisconnect
  \/ FramingConnect

FramingSpec == FramingInit /\ [][FramingNext]_vars

\* this step is the onReceive callback taking frame
Receives(frame) ==
  /\ calls' # << >>
  /\ calls'[Len(calls')][1] = "onReceive"
  /\ calls'[Len(calls')][2] = frame

\* this step handed len bytes to the OTA service method fn
Forwarded(fn, len) ==
  \E i \in DOMAIN calls' : calls'[i][1] = fn /\ calls'[i][3] = len

\* this step left everything but the traces as it was
NoEffect ==
  /\ UNCHANGED << engine, ctl, nvs, ota, rtos, io >>
  /\ sent' = << >>

\* a frame taken as stream data: appended to the buffer of a buffered stream,
\* handed to the OTA service in an OTA stream, and nothing else
TakenAsData(frame) ==
  /\ UNCHANGED << engine, nvs, io >>
  /\ sent' = << >>
  /\ IF ctl.streamType_ \in BufferedKinds
     THEN /\ ctl' = [ ctl EXCEPT !.streamBuffer_ = @ \o frame ]
          /\ UNCHANGED << ota, rtos >>
     ELSE /\ ctl' = ctl
          /\ Forwarded(IF ctl.streamType_ = "OTA_FULL" THEN "writeFirmwareChunk"
                       ELSE "writeDeltaChunk", Len(frame))

\* this step ran finalizeStream: the stream is closed, or the device restarts
Finalized29 == ctl'.streamType_ = "NONE" \/ rtos'.halted

FramingStep(frame) ==
  Receives(frame) =>
    IF ctl.streamType_ = "NONE" THEN (frame = END_MARKER => NoEffect)
    ELSE IF frame = END_MARKER THEN Finalized29
    ELSE TakenAsData(frame)

\* C29: while a stream is open no frame is dispatched as a command: every
\* frame other than the three bytes END is appended to the buffer (ruleset
\* and debug streams) or handed to the OTA service (OTA streams), frames that
\* look like commands included, and the frame END finalizes the stream; with
\* no stream open the frame END has no effect.
C29_StreamFraming == [][\A frame \in FramingFrames : FramingStep(frame)]_vars

\* the same with the frame that begins END, NUL left out
C29_FramingOfOtherFrames ==
  [][\A frame \in FramingFrames \ { EndThenNul } : FramingStep(frame)]_vars

\* this step closes an open stream by finalizeStream
Finalizes ==
  /\ ctl.streamType_ # "NONE"
  /\ \E frame \in FramingFrames : Receives(frame) /\ StringEquals(frame, END_MARKER)

NoneMeansEmpty == ctl.streamType_ = "NONE" => ctl.streamBuffer_ = << >>

\* C30: after every finalization, accepted or rejected, of every stream kind,
\* the stream kind is None (a full OTA that succeeds ends in esp_restart, and
\* the firmware starts again with no stream); whenever the stream kind is
\* None the stream buffer is empty.
C30_StreamReset ==
  /\ []NoneMeansEmpty
  /\ [][Finalizes => (ctl'.streamType_ = "NONE" \/ rtos'.halted)]_vars

\* a ruleset stream of the wrong length was just finalized and rejected: the
\* kind is None again
C30_Witness ==
  /\ ctl.streamType_ = "NONE"
  /\ ctl.streamBuffer_ = << >>
  /\ calls # << >>
  /\ calls[Len(calls)][1] = "onReceive"
  /\ calls[Len(calls)][2] = END_MARKER
  /\ sent # << >>
  /\ sent[Len(sent)] = "ERR:LEN_MISMATCH"

\* ------------------------------------------------------------------------
\* Properties of the active tables
\* ------------------------------------------------------------------------

\* the 1-based positions of the signals of the active table with this CAN id
SignalsWithId(eng, id) == { i \in DOMAIN eng.signals_ : eng.signals_[i].canId = id }

\* signalMap_ lists, for each CAN id of the active table and for no other id,
\* exactly the signals with that id, each once
SignalMapExact(eng) ==
  /\ DOMAIN eng.signalMap_ = { eng.signals_[i].canId : i \in DOMAIN eng.signals_ }
  /\ \A id \in DOMAIN eng.signalMap_ :
       /\ { eng.signalMap_[id][k] : k \in DOMAIN eng.signalMap_[id] }
            = SignalsWithId(eng, id)
       /\ Len(eng.signalMap_[id]) = Cardinality(SignalsWithId(eng, id))

TableIndicesValid(eng) ==
  /\ \A i \in DOMAIN eng.conditions_ :
       eng.conditions_[i].signalIdx < Len(eng.signals_)
  /\ \A r \in DOMAIN eng.rules_ :
       /\ \A c \in 0..30 :
            BitOf(eng.rules_[r].conditionMask, c) = 1 => c < Len(eng.conditions_)
       /\ eng.rules_[r].actionStartIdx + eng.rules_[r].actionCount
            <= Len(eng.actions_)

\* C31: in every reachable engine state every condition's signal_idx is below
\* the number of signals, every bit set in a rule's condition_mask is below
\* the number of conditions, every rule has action_start_idx + action_count
\* <= number of actions, and the CAN-id lookup index names exactly the
\* signals of the active table with that CAN id.
C31_ActiveTableIndices == TableIndicesValid(engine) /\ SignalMapExact(engine)

\* a container with three signals on two CAN ids was installed and a frame
\* was decoded into its tables
C31_Witness ==
  /\ Len(engine.signals_) = 3
  /\ Len(engine.conditions_) = 2
  /\ engine.rulesetBinary_ # << >>
  /\ calls # << >>
  /\ calls[1][1] = "processCanFrame"

\* ------------------------------------------------------------------------
\* Restart specification: the sketch of W4RP.h (setup: begin(), then
\* registerCapability; loop afterwards), a peer that installs rulesets, and
\* restarts of the module; the storage keeps its keys across a restart
\* ------------------------------------------------------------------------

\* the most boots of one behaviour
MaxBoots == 3

\* a valid ruleset with one rule and no action
RulesNoAction ==
  MkRules(<< SigSpeed >>, << CondPositive >>, << >>, << >>,
          << [ RuleOne EXCEPT !.actionCount = 0 ] >>, CapA \o << 0 >>)

RestartContainers == { RulesA, RulesNoAction }

RestartCommands ==
  { SetRulesCmd(CMD_SET_RULES_NVS, c) : c \in RestartContainers }
  \cup { SetRulesCmd(CMD_SET_RULES_RAM, RulesA) }

\* Controller::loadRulesFromNvs (readOk: the second Storage::readBlob returns
\* the size the first one told)
loadRulesFromNvs(w, readOk) ==
  IF Len(w.nvs) = 0 THEN [ w EXCEPT !.ctl.rulesMode_ = 0 ]
  ELSE IF ~readOk THEN [ w EXCEPT !.ctl.rulesMode_ = 0 ]
  ELSE LET r == loadRuleset(w.engine, w.nvs)
       IN [ Called([ w EXCEPT !.engine = r.eng ], "loadRuleset", r.ok)
            EXCEPT !.ctl.rulesMode_ = IF r.ok THEN 2 ELSE 0 ]

\* Controller::begin (bootCount: the number under the key boot_count)
Controller_begin(w, bootCount, readOk) ==
  loadRulesFromNvs([ w EXCEPT !.io = IoInit,
                              !.ctl.bootCount_ = bootCount + 1 ], readOk)

\* the module is powered, the objects of the sketch are constructed
\* (hist.phase: how far setup() has come; hist.boot_count: the stored key)
RestartInit ==
  /\ engine = EngineInit
  /\ ctl = ControllerInit
  /\ nvs = << >>
  /\ sent = << >>
  /\ calls = << >>
  /\ now = 0
  /\ hist = [ phase |-> "constructed", boot_count |-> 0 ]
  /\ ota = OTAServiceInit
  /\ rtos = PlatformInit
  /\ io = IoInit

\* setup(): controller.begin()
RestartBegin ==
  /\ hist.phase = "constructed"
  /\ Commit(Called(Controller_begin(World, hist.boot_count, TRUE), "begin", TRUE))
  /\ hist' = [ phase |-> "begun", boot_count |-> hist.boot_count + 1 ]
  /\ UNCHANGED << now, ota, rtos, io >>

\* setup(): controller.registerCapability(...)
RestartRegister ==
  /\ hist.phase = "begun"
  /\ Commit([ World EXCEPT !.engine = registerCapability(engine, CapA) ])
  /\ hist' = [ hist EXCEPT !.phase = "ready" ]
  /\ UNCHANGED << now, ota, rtos, io >>

\* a peer connects
RestartConnect ==
  /\ hist.phase = "ready"
  /\ Connect

\* a frame arrives on the transport: a command while no stream is open, a
\* container or END while one is
RestartReceive(frame) ==
  /\ hist.phase = "ready"
  /\ io.connected
  /\ IF ctl.streamType_ = "NONE" THEN frame \in RestartCommands
     ELSE \/ frame = END_MARKER
          \/ frame \in RestartContainers /\ ctl.streamBuffer_ = << >>
  /\ Commit(Called(onReceive(World, frame), "onReceive", frame))
  /\ UNCHANGED << now, hist, ota, rtos, io >>

\* the module restarts: the memory is as after construction, the storage
\* keeps rules_bin and boot_count
RestartPower ==
  /\ hist.phase = "ready"
  /\ hist.boot_count < MaxBoots
  /\ engine' = EngineInit
  /\ ctl' = ControllerInit
  /\ sent' = << >>
  /\ calls' = << << "restart", TRUE >> >>
  /\ ota' = OTAServiceInit
  /\ rtos' = PlatformInit
  /\ io' = IoInit
  /\ hist' = [ hist EXCEPT !.phase = "constructed" ]
  /\ UNCHANGED << nvs, now >>

RestartNext ==
  \/ RestartBegin
  \/ RestartRegister
  \/ RestartConnect
  \/ \E frame \in RestartCommands \cup RestartContainers \cup { END_MARKER } :
       RestartReceive(frame)
  \/ RestartPower

RestartSpec == RestartInit /\ [][RestartNext]_vars

\* begin() has just returned in a boot that found a stored ruleset
BegunWithStored(minActions) ==
  /\ hist.phase = "begun"
  /\ nvs # << >>
  /\ U8(nvs, 10) >= minActions

ActiveIsStored == engine.rulesetBinary_ = nvs /\ ctl.rulesMode_ = 2

\* C32: after a ruleset with at least one action was accepted through
\* SET:RULES:NVS and the module restarted with setup() calling begin() before
\* registerCapability, the active ruleset after begin() is the persisted
\* ruleset and the rules-mode tag is 2.
C32_PersistenceAcrossRestart == BegunWithStored(1) => ActiveIsStored

\* the same for a stored ruleset without actions
C32_ActionlessPersists ==
  (BegunWithStored(0) /\ U8(nvs, 10) = 0) => ActiveIsStored

\* ------------------------------------------------------------------------
\* Properties of the CAN driver around OTA sessions
\* ------------------------------------------------------------------------

OtaKinds == { "OTA_FULL", "OTA_DELTA" }

\* no OTA stream is open and the service is not in a session
OtaQuiet ==
  /\ ctl.streamType_ \notin OtaKinds
  /\ ota.status_ \notin { "RECEIVING", "VALIDATING", "APPLYING" }
  /\ ~rtos.halted

\* C33: in every reachable state in which no OTA stream is open and the OTA
\* status is neither RECEIVING, VALIDATING nor APPLYING, the CAN driver is
\* running (it was resumed after the session, also after a failure of the
\* delta worker).
C33_CanResumed == OtaQuiet => io.running

\* the peer leaves while an OTA stream is open
LeavesDuringOta ==
  /\ ctl.streamType_ \in OtaKinds
  /\ io.connected
  /\ ~io'.connected

\* the part of C33 about a disconnect: after the transport disconnects during
\* an OTA stream the CAN driver is running again
C33_CanResumedAfterDisconnect == [][LeavesDuringOta => io'.running]_vars

\* ------------------------------------------------------------------------
\* Properties of a finished OTA session
\* ------------------------------------------------------------------------

\* the status is an error status or SUCCESS
OtaFinished(status) == status \notin { "IDLE", "RECEIVING", "VALIDATING", "APPLYING" }

OtaCommands ==
  { OtaCmd(CMD_OTA_BEGIN, DeclaredSize, crc) : crc \in DeclaredCRCs }
  \cup { OtaCmd(CMD_OTA_DELTA, DeclaredSize, crc) : crc \in DeclaredCRCs }

\* what the peer is told when command arrives now (whatever the platform
\* calls would give): OTA:ERROR, and the service and the stream stay as they
\* are
OtaRefused(command) ==
  \A env \in CtlEnvs(command) :
    \E w \in { onReceive([ World EXCEPT !.env = env ], command) } :
      /\ w.sent = << "OTA:ERROR" >>
      /\ w.ota = ota
      /\ w.ctl = ctl
      /\ w.io = io

RetryRefused ==
  (OtaFinished(ota.status_) /\ ctl.streamType_ = "NONE" /\ ~rtos.halted)
    => \A command \in OtaCommands : OtaRefused(command)

\* C34: once the OTA status is an error status or SUCCESS no step of the
\* Controller, the service or the worker changes it (only abort() would, and
\* the Controller never calls it), and every OTA:BEGIN and OTA:DELTA command
\* that arrives afterwards is answered OTA:ERROR.
C34_NoRetry ==
  /\ []RetryRefused
  /\ [][OtaFinished(ota.status_) => ota'.status_ = ota.status_]_vars

\* an OTA:BEGIN or OTA:DELTA command has just been refused after a session
\* that ended in an error status or in SUCCESS
C34_Witness ==
  /\ OtaFinished(ota.status_)
  /\ ctl.streamType_ = "NONE"
  /\ sent = << "OTA:ERROR" >>
  /\ \/ Logged(calls, "startFirmwareUpdate", FALSE)
     \/ Logged(calls, "startDeltaUpdate", FALSE)

\* ------------------------------------------------------------------------
\* Properties of the size of a delta patch
\* ------------------------------------------------------------------------

\* a delta session is applying its patch with exactly the declared bytes
AppliesDeclaredSize ==
  (ota.isDelta_ /\ ota.status_ = "APPLYING")
    => ota.receivedBytes_ = ota.expectedSize_

\* a delta session has accepted no more bytes than were declared
WithinDeclaredSize ==
  (ota.isDelta_ /\ ota.status_ \in { "RECEIVING", "APPLYING" })
    => ota.receivedBytes_ <= ota.expectedSize_

\* C35: finalizeDeltaUpdate moves a delta session to APPLYING only if the
\* bytes accepted by writeDeltaChunk are as many as OTA:DELTA declared, and
\* writeDeltaChunk accepts no byte beyond the declared patch size.
C35_DeltaSize == AppliesDeclaredSize /\ WithinDeclaredSize

\* ------------------------------------------------------------------------
\* Properties of the patch stream of a delta session
\* ------------------------------------------------------------------------

\* this step offered a chunk of the declared patch, no larger than the ring,
\* to writeDeltaChunk in a receiving delta session and the chunk was not
\* accepted
ChunkRejected ==
  /\ ota.isDelta_
  /\ ota.status_ = "RECEIVING"
  /\ \E i \in DOMAIN calls' :
       /\ calls'[i][1] = "writeDeltaChunk"
       /\ calls'[i][2] = FALSE
       /\ calls'[i][3] <= RingCapacity
       /\ ota.receivedBytes_ + calls'[i][3] <= ota.expectedSize_

\* C36: in a delta session the ring buffer is drained while the session is
\* RECEIVING, so every chunk the host offers to writeDeltaChunk is accepted
\* (within the time the producer waits for room), whatever the declared patch
\* size, also above the capacity of the ring.
C36_DeltaProgress == [][~ChunkRejected]_vars

\* ------------------------------------------------------------------------
\* Properties of the handles abort() works with
\* ------------------------------------------------------------------------

\* the stored task handle names a worker task that still exists
TaskHandleLive == ota.deltaTask_ # 0 => rtos.task # "none"

\* the stored partition handle names a handle that was neither ended nor
\* aborted
PartitionHandleOpen == ota.otaHandle_ # 0 => rtos.handleOpen

\* C37: the stored worker task handle is non-null only while the worker task
\* is alive, and the stored partition handle is non-zero only while that
\* handle is open; so abort(), whenever it runs, deletes no worker that has
\* already terminated and aborts no partition handle the worker has already
\* ended or aborted.
C37_HandleValidity == TaskHandleLive /\ PartitionHandleOpen

\* ------------------------------------------------------------------------
\* Properties of the admission to the dirty queue
\* ------------------------------------------------------------------------

\* overlay index idx (0-based) is pending
IsPending(eng, idx) == \E i \in DOMAIN Pending(eng) : Pending(eng)[i] = idx

\* a processCanFrame call in debug mode leaves pending every overlay signal
\* of the frame whose value now differs from its last reported value, when
\* the pending entries leave room for every overlay signal
AdmitsChanged ==
  (calls'[1][1] = "processCanFrame" /\ engine.debugMode_) =>
    \A idx \in DOMAIN engine.debugSignals_ :
      (/\ engine.debugSignals_[idx].canId = calls'[1][2]
       /\ engine'.debugSignals_[idx].value * 10
            # engine.debugSignals_[idx].lastDebugValue10
       /\ Len(Pending(engine)) + Len(engine.debugSignals_) <= MaxDirtyQueue)
        => IsPending(engine', idx - 1)

\* C38: in debug mode a CAN frame that moves an overlay signal away from its
\* last reported value enqueues the signal's index unless it is pending
\* already or 64 entries are pending; entries that were popped do not count
\* against the capacity.
C38_DirtyAdmission == [][AdmitsChanged]_vars

\* ------------------------------------------------------------------------
\* Properties of the size of the stream buffer
\* ------------------------------------------------------------------------

\* C39: while a ruleset or debug stream is open the stream buffer holds at
\* most expected_len bytes (a body frame that arrives when expected_len bytes
\* are buffered is not stored).
C39_BufferBound ==
  ctl.streamType_ \in BufferedKinds
    => Len(ctl.streamBuffer_) <= ctl.streamExpectedLen_

\* ------------------------------------------------------------------------
\* Frame specification: two runs of the same firmware with the same ruleset
\* receive, in one iteration of Controller::loop each, queues of frames that
\* may differ in everything but may end with the same frame
\* ------------------------------------------------------------------------

\* a 16-bit signal over the first two data bytes
SigWord == [ canId |-> 256, startBit |-> 0, bitLength |-> 16, flags |-> 0,
             factor |-> 1, offset |-> 0 ]

\* signal 0 lies in the first data byte, signal 1 in the first two
RulesWord ==
  MkRules(<< SigSpeed, SigWord >>, << CondPositive >>, << ActFirstString >>,
          << >>, << RuleOne >>, CapA \o << 0 >>)

\* messages of the TWAI driver: one data byte, or two
TwaiMessages ==
  { [ identifier |-> 256, data_length_code |-> 1,
      data |-> << 1, 0, 0, 0, 0, 0, 0, 0 >> ],
    [ identifier |-> 256, data_length_code |-> 2,
      data |-> << 0, 1, 0, 0, 0, 0, 0, 0 >> ] }

\* what the driver holds when an iteration starts: a frame, or an earlier
\* frame and a frame
FrameQueues ==
  { << msg >> : msg \in TwaiMessages }
    \cup { << earlier, msg >> : earlier \in TwaiMessages, msg \in TwaiMessages }

\* `CanFrame frame;` in Controller::loop has no initialiser: its bytes are
\* whatever the stack holds
StackFrames ==
  { [ id |-> 0, dlc |-> 0, data |-> [ i \in 1..8 |-> b ] ] : b \in { 0, 170 } }

\* TWAICanBus::receive on a message the driver returns: id and dlc are
\* assigned, the first min(dlc, 8) data bytes are copied into the caller's
\* frame and the others are left as they were
TWAICanBus_receive(frame, msg) ==
  LET copyLen == IF msg.data_length_code > 8 THEN 8 ELSE msg.data_length_code
  IN [ id |-> msg.identifier, dlc |-> msg.data_length_code,
       data |-> [ i \in 1..8 |-> IF i <= copyLen THEN msg.data[i]
                                 ELSE frame.data[i] ] ]

\* the receive loop of Controller::loop on the messages the driver holds: one
\* frame object is passed to every call of receive
RECURSIVE ReceiveLoop(_, _, _, _)
ReceiveLoop(eng, frame, queue, nowMs) ==
  IF queue = << >> THEN eng
  ELSE LET received == TWAICanBus_receive(frame, Head(queue))
       IN ReceiveLoop(processCanFrame(eng, received, nowMs), received,
                      Tail(queue), nowMs)

\* the part of a message that is on the bus
OnBus(msg) ==
  << msg.identifier, msg.data_length_code,
     SubSeq(msg.data, 1, IF msg.data_length_code > 8 THEN 8
                         ELSE msg.data_length_code) >>

FrameInit ==
  /\ engine = loadRuleset(registerCapability(EngineInit, CapA), RulesWord).eng
  /\ ctl = [ ControllerInit EXCEPT !.rulesMode_ = 1 ]
  /\ nvs = << >>
  /\ sent = << >>
  /\ calls = << >>
  /\ now = 0
  /\ hist = [ other |-> engine, same |-> FALSE, last |-> << >> ]
  /\ ota = OTAServiceInit
  /\ rtos = PlatformInit
  /\ io = IoInit

\* one iteration of the receive loop in each run: `engine` is the first run,
\* hist.other the second; hist.same tells whether both ended with the same
\* frame on the bus
FrameLoop(queue, otherQueue, stack, otherStack) ==
  /\ engine' = ReceiveLoop(engine, stack, queue, now)
  /\ hist' = [ other |-> ReceiveLoop(hist.other, otherStack, otherQueue, now),
               same |-> OnBus(queue[Len(queue)])
                          = OnBus(otherQueue[Len(otherQueue)]),
               last |-> OnBus(queue[Len(queue)]) ]
  /\ calls' = << << "processCanFrame", queue[Len(queue)].identifier >> >>
  /\ UNCHANGED << ctl, nvs, sent, now, ota, rtos, io >>

FrameNext ==
  \E queue \in FrameQueues, otherQueue \in FrameQueues :
    \E stack \in StackFrames, otherStack \in StackFrames :
      FrameLoop(queue, otherQueue, stack, otherStack)

FrameSpec == FrameInit /\ [][FrameNext]_vars

\* the two runs agree on the value of signal idx (1-based)
SameValue(idx) == engine.signals_[idx].value = hist.other.signals_[idx].value

\* C40: when two runs deliver the same frame (same id, same dlc, same first
\* dlc data bytes) after different earlier frames, every signal with that CAN
\* id has the same value in both runs.
C40_FrameLocal ==
  hist.same =>
    \A idx \in DOMAIN engine.signals_ :
      engine.signals_[idx].canId = hist.last[1] => SameValue(idx)

\* a signal that lies within the first dlc data bytes of the frame has the
\* same value in both runs
C40_WithinDlc ==
  hist.same =>
    \A idx \in DOMAIN engine.signals_ :
      /\ engine.signals_[idx].canId = hist.last[1]
      /\ engine.signals_[idx].startBit + engine.signals_[idx].bitLength
           <= 8 * hist.last[2]
      => SameValue(idx)
============================================================================
